---- MODULE Spec2Model ----
(***************************************************************************)
(* Knowledge store, similarity search and bulk orchestration of the        *)
(* web-analyzer-api repository, modelled as a state machine.               *)
(*                                                                         *)
(* The SQLite tables of one site (content, entities, topics) are the       *)
(* state; every public method of KnowledgeDatabase is one action.          *)
(* Timestamps (datetime.now().isoformat()) are a logical clock that grows  *)
(* by one with every add_content call: the calls of one instance are       *)
(* serialised by db_lock and take far longer than the clock's resolution,  *)
(* so two calls never read the same instant.  created_at is written once   *)
(* and never read by any code path, it is not part of the state.           *)
(***************************************************************************)
EXTENDS Integers, Sequences, FiniteSets, TLC

VARIABLES config, content, entities, topics, clock, last, inflight, run

vars == <<config, content, entities, topics, clock, last, inflight, run>>

store == <<content, entities, topics>>

----------------------------------------------------------------------------
(* Bounds of the model *)

NumIds == 3

MaxClock == 4

\* items of one bulk run
MaxItems == 3

(* Program constants *)

TargetFillPct == 80

----------------------------------------------------------------------------
(* Python values *)

\* Python's None, where a string is expected
NONE == "<None>"

\* SQL NULL in the embedding column / embedding_bytes = None
NULL == <<>>

\* str(x): the identity on strings, "None" for None
PyStr(x) == IF x = NONE THEN "None" ELSE x

\* pickle.dumps of a numpy vector; pickle.loads is its inverse
Pickle(v) == <<"pkl", v>>

Unpickle(b) == b[2]

Vectors == { <<1, 0>>, <<1, 1>>, <<0, 1>> }

ContentIds == { "id1", "id2", "id3", "id4", "id5" }

Ids == { cid \in ContentIds :
           \E n \in 1..NumIds : cid = <<"id1", "id2", "id3", "id4", "id5">>[n] }

Titles == { "t1", "t2" }

Urls == { "u1", "u2" }

\* configurations (max_entries, cleanup_threshold in percent) of config.json
Configs ==
  { [max_entries |-> 2, cleanup_threshold |-> 100],
    [max_entries |-> 2, cleanup_threshold |-> 90],
    [max_entries |-> 3, cleanup_threshold |-> 50] }

\* the "entities" / "topics" keys of content_data: absent, or a flattened
\* list of values
Kids ==
  { [has_entities |-> FALSE, entities |-> <<>>, has_topics |-> FALSE, topics |-> <<>>],
    [has_entities |-> TRUE,  entities |-> <<>>, has_topics |-> FALSE, topics |-> <<>>],
    [has_entities |-> TRUE,  entities |-> <<"a">>, has_topics |-> TRUE, topics |-> <<"x">>] }

ContentData(id, title, url, k) ==
  [id |-> id, title |-> title, url |-> url,
   has_entities |-> k.has_entities, entities |-> k.entities,
   has_topics |-> k.has_topics, topics |-> k.topics]

StoreEmbeddings == { NULL, Pickle(<<1, 0>>), Pickle(<<0, 1>>) }

\* The calls add_content(content_data, embedding_bytes) of the store
\* specification: the first record is upserted with every combination of
\* title, url, children and embedding; the other ids are upserted with one
\* fixed document each.
StoreCalls ==
  { <<ContentData("id1", t, u, k), e>> :
       t \in Titles, u \in Urls, k \in Kids, e \in StoreEmbeddings }
    \cup { <<ContentData(id, "t1", "u2", k), NULL>> :
             id \in Ids \ {"id1"}, k \in { k \in Kids : ~k.has_entities } }

----------------------------------------------------------------------------
(* Helpers on the tables *)

Range(s) == { s[i] : i \in 1..Len(s) }

RemoveAt(s, i) == SubSeq(s, 1, i - 1) \o SubSeq(s, i + 1, Len(s))

Min(a, b) == IF a <= b THEN a ELSE b

Max(a, b) == IF a >= b THEN a ELSE b

\* SELECT ... FROM content WHERE content_id = ?  (fetchone: first match)
RowsOf(rows, content_id) == SelectSeq(rows, LAMBDA r : r.content_id = content_id)

\* an existence check that never finds the row
HasRow_Never(rows, content_id) == FALSE

HasRow(rows, content_id) == \E i \in 1..Len(rows) : rows[i].content_id = content_id

RowOf(rows, content_id) == RowsOf(rows, content_id)[1]

\* a DELETE that removes nothing
DeleteContent_Keep(rows, content_id) == rows

\* DELETE FROM content WHERE content_id = ?
DeleteContent(rows, content_id) == SelectSeq(rows, LAMBDA r : r.content_id # content_id)

\* a DELETE that removes nothing
DeleteChildren_Keep(tbl, content_id) == tbl

\* DELETE FROM entities|topics WHERE content_id = ?
DeleteChildren(tbl, content_id) == [tbl EXCEPT ![content_id] = <<>>]

\* INSERT INTO entities|topics, one row per supplied value
InsertChildren(tbl, content_id, values) ==
  [tbl EXCEPT ![content_id] = tbl[content_id] \o values]

\* _generate_content_hash: md5 over (title, entities, topics); a missing
\* key hashes as the empty dict
GenerateContentHash(content_data) ==
  << content_data.title,
     IF content_data.has_entities THEN content_data.entities ELSE <<>>,
     IF content_data.has_topics THEN content_data.topics ELSE <<>> >>

----------------------------------------------------------------------------
(* Eviction *)

ThresholdCount(cfg) == (cfg.max_entries * cfg.cleanup_threshold) \div 100

TargetCount(cfg) == (cfg.max_entries * TargetFillPct) \div 100

ToRemove(cfg, content_count) == content_count - TargetCount(cfg)

\* a scan in rowid order, without the ORDER BY
OrderByUpdatedAt_RowidOrder(rows) == rows

\* SELECT ... ORDER BY updated_at ASC
RECURSIVE OrderByUpdatedAt(_)
OrderByUpdatedAt(rows) ==
  IF rows = <<>> THEN <<>>
  ELSE LET i == CHOOSE i \in 1..Len(rows) :
                  \A j \in 1..Len(rows) :
                     \/ rows[i].updated_at < rows[j].updated_at
                     \/ rows[i].updated_at = rows[j].updated_at /\ i <= j
       IN <<rows[i]>> \o OrderByUpdatedAt(RemoveAt(rows, i))

\* SELECT content_id FROM content ORDER BY updated_at ASC LIMIT ?
OldestRows(rows, to_remove) ==
  SubSeq(OrderByUpdatedAt(rows), 1, Min(to_remove, Len(rows)))

RECURSIVE RemoveAll(_, _)
RemoveAll(st, ids) ==
  IF ids = <<>> THEN st
  ELSE RemoveAll([content  |-> DeleteContent(st.content, Head(ids)),
                  entities |-> DeleteChildren(st.entities, Head(ids)),
                  topics   |-> DeleteChildren(st.topics, Head(ids))],
                 Tail(ids))

\* _perform_cleanup: the rows it removes, oldest first
PerformCleanupRows(cfg, rows) ==
  IF ToRemove(cfg, Len(rows)) <= 0 THEN <<>>
  ELSE OldestRows(rows, ToRemove(cfg, Len(rows)))

\* _check_cleanup_needed: the rows removed by the cleanup it may start
CheckCleanupRows(cfg, rows) ==
  IF Len(rows) > ThresholdCount(cfg) THEN PerformCleanupRows(cfg, rows) ELSE <<>>

RowIds(rows) == [i \in 1..Len(rows) |-> rows[i].content_id]

----------------------------------------------------------------------------
(* add_content *)

\* an update whenever an embedding is supplied
NeedsUpdate_AnyEmbedding(existing_hash, content_hash, embedding_bytes, existing_embedding) ==
  \/ existing_hash # content_hash
  \/ embedding_bytes # NULL

\* line 227: update if the hash differs, or a new embedding arrives for a
\* record without one
NeedsUpdate(existing_hash, content_hash, embedding_bytes, existing_embedding) ==
  \/ existing_hash # content_hash
  \/ embedding_bytes # NULL /\ existing_embedding = NULL

\* the UPDATE statement of lines 232-247
UpdateRow(row, title, url, content_hash, embedding_bytes, now) ==
  [row EXCEPT !.title = title, !.url = url, !.hash = content_hash,
              !.updated_at = now,
              !.embedding = IF embedding_bytes # NULL THEN embedding_bytes ELSE @]

\* the INSERT statement of lines 271-276
NewRow(content_id, title, url, content_hash, embedding_bytes, now) ==
  [content_id |-> content_id, title |-> title, url |-> url, hash |-> content_hash,
   embedding |-> embedding_bytes, updated_at |-> now]

ReplaceRow(rows, content_id, row) ==
  [i \in 1..Len(rows) |-> IF rows[i].content_id = content_id THEN row ELSE rows[i]]

\* lines 282-317: entity and topic rows are inserted for the keys supplied
AddChildren(st, content_id, content_data) ==
  [content  |-> st.content,
   entities |-> IF content_data.has_entities
                THEN InsertChildren(st.entities, content_id, content_data.entities)
                ELSE st.entities,
   topics   |-> IF content_data.has_topics
                THEN InsertChildren(st.topics, content_id, content_data.topics)
                ELSE st.topics]

DropChildren(st, content_id) ==
  [content  |-> st.content,
   entities |-> DeleteChildren(st.entities, content_id),
   topics   |-> DeleteChildren(st.topics, content_id)]

\* lines 215-317: the tables after the upsert, before the cleanup check;
\* early is the return of line 265
Upsert(st, content_data, embedding_bytes, now) ==
  LET content_id   == PyStr(content_data.id)
      url          == PyStr(content_data.url)
      title        == content_data.title
      content_hash == GenerateContentHash(content_data)
  IN IF HasRow(st.content, content_id)
     THEN LET existing == RowOf(st.content, content_id)
          IN IF NeedsUpdate(existing.hash, content_hash, embedding_bytes, existing.embedding)
             THEN [st |-> AddChildren(
                            DropChildren(
                              [st EXCEPT !.content =
                                 ReplaceRow(st.content, content_id,
                                   UpdateRow(existing, title, url, content_hash,
                                             embedding_bytes, now))],
                              content_id),
                            content_id, content_data),
                   path |-> "update", early |-> FALSE]
             ELSE IF content_data.has_entities \/ content_data.has_topics
                  THEN [st |-> AddChildren(DropChildren(st, content_id),
                                           content_id, content_data),
                        path |-> "children", early |-> FALSE]
                  ELSE [st |-> st, path |-> "skip", early |-> TRUE]
     ELSE [st |-> AddChildren(
                    [st EXCEPT !.content =
                       Append(st.content,
                              NewRow(content_id, title, url, content_hash,
                                     embedding_bytes, now))],
                    content_id, content_data),
           path |-> "insert", early |-> FALSE]

\* add_content without a store failure: upsert, commit, cleanup check; the
\* tables it leaves and what it returns
AddContentResult(cfg, st, content_data, embedding_bytes, now) ==
  LET up      == Upsert(st, content_data, embedding_bytes, now)
      evicted == IF up.early THEN <<>> ELSE CheckCleanupRows(cfg, up.st.content)
  IN [st |-> RemoveAll(up.st, RowIds(evicted)),
      ret |-> TRUE, path |-> up.path,
      count_after_upsert |-> Len(up.st.content),
      evicted |-> evicted]

Tables == [content |-> content, entities |-> entities, topics |-> topics]

AddContent(content_data, embedding_bytes) ==
  /\ clock < MaxClock
  /\ LET now == clock + 1
         res == AddContentResult(config, Tables, content_data, embedding_bytes, now)
     IN /\ content' = res.st.content
        /\ entities' = res.st.entities
        /\ topics' = res.st.topics
        /\ clock' = now
        /\ last' = [op |-> "add_content", content_id |-> PyStr(content_data.id),
                    input |-> content_data, embedding_bytes |-> embedding_bytes,
                    ret |-> res.ret, path |-> res.path,
                    repeat |-> /\ last.op = "add_content"
                               /\ last.input = content_data
                               /\ last.embedding_bytes = embedding_bytes,
                    existed |-> HasRow(content, PyStr(content_data.id)),
                    count_after_upsert |-> res.count_after_upsert,
                    evicted |-> res.evicted,
                    live |-> HasRow(res.st.content, PyStr(content_data.id))]
  /\ UNCHANGED <<config, inflight, run>>

----------------------------------------------------------------------------
(* remove_content *)

RemoveContent(content_id) ==
  /\ content' = DeleteContent(content, content_id)
  /\ entities' = DeleteChildren(entities, content_id)
  /\ topics' = DeleteChildren(topics, content_id)
  /\ last' = [op |-> "remove_content", content_id |-> content_id,
              input |-> NONE, embedding_bytes |-> NULL,
              ret |-> TRUE, raised |-> FALSE, fault |-> "none",
              path |-> "delete", repeat |-> FALSE,
              existed |-> HasRow(content, content_id),
              unchanged |-> ~HasRow(content, content_id),
              count_after_upsert |-> 0, evicted |-> <<>>]
  /\ UNCHANGED <<config, clock, inflight, run>>

----------------------------------------------------------------------------
(* The store of one site under a single KnowledgeDatabase instance.        *)
(* last is the record of the most recent call: its arguments, its return  *)
(* value, the branch of add_content it took (path), whether it repeated   *)
(* the call before it (repeat), whether the row existed when it began     *)
(* (existed), what its cleanup read and removed, and whether the row of   *)
(* its content_id was in the table when it returned (live).               *)

\* no add_content call between its commit and its cleanup
Idle == [pc |-> "idle", content_id |-> NONE, path |-> "none"]

\* no bulk run
NoRun == [next |-> 0, processed |-> 0]

NoCall ==
  [op |-> "none", content_id |-> NONE, input |-> NONE, embedding_bytes |-> NULL,
   ret |-> TRUE, path |-> "none", repeat |-> FALSE, existed |-> FALSE,
   count_after_upsert |-> 0, evicted |-> <<>>]

Init ==
  /\ config \in Configs
  /\ content = <<>>
  /\ entities = [cid \in ContentIds |-> <<>>]
  /\ topics = [cid \in ContentIds |-> <<>>]
  /\ clock = 0
  /\ last = NoCall
  /\ inflight = [inst \in {} |-> Idle]
  /\ run = NoRun

Next ==
  \/ \E call \in StoreCalls : AddContent(call[1], call[2])
  \/ \E content_id \in Ids : RemoveContent(content_id)

Spec == Init /\ [][Next]_vars

----------------------------------------------------------------------------
(* Similarity search *)

\* similarities are held in percent, rounded down
ISqrt(n) == CHOOSE r \in 0..100 : r * r <= n /\ (r + 1) * (r + 1) > n

Dot(a, b) == a[1] * b[1] + a[2] * b[2]

\* _calculate_cosine_similarity: dot(a, b) / (|a| |b|); 0.0 for a missing
\* vector, and for a zero vector (sklearn normalises it to zero)
CalculateCosineSimilarity(embedding1, embedding2) ==
  IF embedding1 = NULL \/ embedding2 = NULL THEN 0
  ELSE IF Dot(embedding1, embedding1) = 0 \/ Dot(embedding2, embedding2) = 0 THEN 0
  ELSE LET d == Dot(embedding1, embedding2)
           m == ISqrt((10000 * d * d)
                        \div (Dot(embedding1, embedding1) * Dot(embedding2, embedding2)))
       IN IF d >= 0 THEN m ELSE 0 - m

\* Python truthiness of an Optional[str]
Truthy(x) == x # NONE /\ x # ""

\* the WHERE clause of lines 698-703
IsCandidateRow(row, exclude_url) ==
  /\ row.embedding # NULL
  /\ Truthy(exclude_url) => row.url # PyStr(exclude_url)

\* get_all_content_with_embeddings: rows in scan (rowid) order
GetAllContentWithEmbeddings(rows, exclude_url) ==
  LET sel == SelectSeq(rows, LAMBDA r : IsCandidateRow(r, exclude_url))
  IN [i \in 1..Len(sel) |->
        [content_id |-> sel[i].content_id, title |-> sel[i].title,
         url |-> sel[i].url, embedding |-> Unpickle(sel[i].embedding)]]

\* lines 788-800: the candidates at or above the threshold, with their score
ScoreCandidates(candidates, query_embedding, min_similarity) ==
  LET scored == [i \in 1..Len(candidates) |->
                   [content_id |-> candidates[i].content_id,
                    title |-> candidates[i].title,
                    url |-> candidates[i].url,
                    similarity |-> CalculateCosineSimilarity(query_embedding,
                                                             candidates[i].embedding)]]
  IN SelectSeq(scored, LAMBDA c : c.similarity >= min_similarity)

\* list.sort(key=similarity, reverse=True): stable, highest first
RECURSIVE SortBySimilarity(_)
SortBySimilarity(items) ==
  IF items = <<>> THEN <<>>
  ELSE LET i == CHOOSE i \in 1..Len(items) :
                  \A j \in 1..Len(items) :
                     \/ items[i].similarity > items[j].similarity
                     \/ items[i].similarity = items[j].similarity /\ i <= j
       IN <<items[i]>> \o SortBySimilarity(RemoveAt(items, i))

\* a result list that is not cut to top_n
TopN_All(items, top_n) == items

\* results_with_scores[:top_n]
TopN(items, top_n) == SubSeq(items, 1, Min(top_n, Len(items)))

FindRelatedContentSemantic(rows, query_embedding, exclude_url, top_n, min_similarity) ==
  IF query_embedding = NULL THEN <<>>
  ELSE TopN(SortBySimilarity(
              ScoreCandidates(GetAllContentWithEmbeddings(rows, exclude_url),
                              query_embedding, min_similarity)),
            top_n)

\* a find_related_content_semantic call on the store.  A query leaves the
\* tables as they are, so one query per behaviour covers the queries of
\* every behaviour.
FindRelated(query_embedding, exclude_url, top_n, min_similarity) ==
  /\ last.op = "none"
  /\ last' = [op |-> "find_related", query_embedding |-> query_embedding,
              exclude_url |-> exclude_url, top_n |-> top_n,
              min_similarity |-> min_similarity,
              result |-> FindRelatedContentSemantic(content, query_embedding,
                                                    exclude_url, top_n, min_similarity)]
  /\ UNCHANGED <<config, content, entities, topics, clock, inflight, run>>

SearchConfigs == { [max_entries |-> 10000, cleanup_threshold |-> 90] }

SearchEmbeddings == { NULL, Pickle(<<1, 0>>), Pickle(<<1, 1>>) }

\* url of the document with a given id, as the bulk processor passes it on
\* from the request (ContentItem.url is an optional string): None for a
\* document without url, the empty string, or an address
UrlOf(id) ==
  IF id = "id1" THEN NONE
  ELSE IF id = "id2" THEN ""
  ELSE IF id = "id3" THEN "u1"
  ELSE "u2"

SearchCalls ==
  { <<ContentData(id, "t1", UrlOf(id), k), e>> :
       id \in Ids, k \in { k \in Kids : ~k.has_entities }, e \in SearchEmbeddings }

QueryEmbeddings == { <<1, 0>>, <<1, 1>>, <<0, 0>> }

ExcludeUrls == { NONE, "", "u1" }

TopNs == { 1, 2 }

MinSimilarities == { 0, 50 }

EmptyTables ==
  [content  |-> <<>>,
   entities |-> [cid \in ContentIds |-> <<>>],
   topics   |-> [cid \in ContentIds |-> <<>>]]

\* the tables after a sequence of add_content calls on a new store
RECURSIVE StoreAfter(_, _)
StoreAfter(cfg, calls) ==
  IF calls = <<>> THEN EmptyTables
  ELSE LET call == calls[Len(calls)]
       IN AddContentResult(cfg, StoreAfter(cfg, SubSeq(calls, 1, Len(calls) - 1)),
                           call[1], call[2], Len(calls)).st

\* the search specification starts from a store filled by up to NumIds
\* add_content calls and only queries it
InitSearch ==
  /\ config \in SearchConfigs
  /\ \E n \in 0..NumIds : \E calls \in [1..n -> SearchCalls] :
        /\ content = StoreAfter(config, calls).content
        /\ entities = StoreAfter(config, calls).entities
        /\ topics = StoreAfter(config, calls).topics
        /\ clock = n
  /\ last = NoCall
  /\ inflight = [inst \in {} |-> Idle]
  /\ run = NoRun

NextSearch ==
  \E q \in QueryEmbeddings, ex \in ExcludeUrls, n \in TopNs, ms \in MinSimilarities :
     FindRelated(q, ex, n, ms)

SpecSearch == InitSearch /\ [][NextSearch]_vars

----------------------------------------------------------------------------
(* Properties of the knowledge store *)

StoredHash(rows, content_id) ==
  IF HasRow(rows, content_id) THEN RowOf(rows, content_id).hash ELSE <<>>

IsAdd(l) == l.op = "add_content"

IsRemove(l) == l.op = "remove_content"

\* C1: add_content is idempotent: a call that repeats the call before it
\* with identical content_data and embedding leaves the stored hash, the
\* number of content rows and all entity/topic rows as the first call left
\* them.
C1_AddContentIdempotent ==
  [][ (IsAdd(last') /\ last'.repeat /\ last.ret /\ last'.ret)
      => /\ StoredHash(content', last'.content_id) = StoredHash(content, last'.content_id)
         /\ Len(content') = Len(content)
         /\ entities' = entities
         /\ topics' = topics ]_vars

C1_Witness ==
  /\ IsAdd(last) /\ last.repeat /\ last.ret
  /\ last.embedding_bytes # NULL
  /\ Len(entities[last.content_id]) > 0
  /\ Len(content) > 1

C5_ReturnedTrueIsLive ==
  (IsAdd(last) /\ last.ret)
  => /\ last.live
     /\ \A i \in 1..Len(last.evicted) : last.evicted[i].content_id # last.content_id

SortedByUpdatedAt(rows) ==
  \A i, j \in 1..Len(rows) : i < j => rows[i].updated_at <= rows[j].updated_at

\* no evicted row is younger than a row that stayed
EvictedAreOldest ==
  \A i \in 1..Len(last.evicted) : \A j \in 1..Len(content) :
     last.evicted[i].updated_at <= content[j].updated_at

\* C6 as stated: after an add_content that left more than
\* floor(max_entries * cleanup_threshold) rows, the oldest rows are removed
\* until floor(max_entries * 0.8) rows remain, and no returned add_content
\* leaves more than floor(max_entries * cleanup_threshold) rows.
C6_EvictionToThreshold ==
  (IsAdd(last) /\ last.ret)
  => /\ last.count_after_upsert > ThresholdCount(config)
          => Len(content) = TargetCount(config)
     /\ SortedByUpdatedAt(last.evicted)
     /\ EvictedAreOldest
     /\ Len(content) <= ThresholdCount(config)

\* C6 as amended: the cleanup removes rows only when the count exceeds both
\* floor(max_entries * cleanup_threshold) and floor(max_entries * 0.8); it
\* then removes the oldest rows until floor(max_entries * 0.8) remain, and
\* no returned add_content leaves more rows than the larger of the two.
C6_EvictionToTarget ==
  (IsAdd(last) /\ last.ret)
  => /\ IF /\ last.count_after_upsert > ThresholdCount(config)
           /\ last.count_after_upsert > TargetCount(config)
        THEN /\ Len(content) = TargetCount(config)
             /\ Len(last.evicted) = last.count_after_upsert - TargetCount(config)
        ELSE /\ last.evicted = <<>>
             /\ Len(content) = last.count_after_upsert
     /\ SortedByUpdatedAt(last.evicted)
     /\ EvictedAreOldest
     /\ Len(content) <= Max(ThresholdCount(config), TargetCount(config))

C6_Witness ==
  /\ IsAdd(last) /\ last.ret
  /\ Len(last.evicted) = 2
  /\ Len(content) = TargetCount(config)
  /\ TargetCount(config) < ThresholdCount(config)

\* C26: after an add_content call that returns true the stored title and
\* url of its content_id are the title and url of the call, also when only
\* the url has changed since the previous upsert.
C26_StoredTitleAndUrl ==
  (IsAdd(last) /\ last.ret /\ HasRow(content, last.content_id))
  => /\ RowOf(content, last.content_id).title = last.input.title
     /\ RowOf(content, last.content_id).url = PyStr(last.input.url)

----------------------------------------------------------------------------
(* Two KnowledgeDatabase instances on the database file of one site.       *)
(* Every bulk job builds its own BulkContentProcessor and with it its own  *)
(* KnowledgeDatabase; db_lock belongs to the instance, so the calls of two *)
(* jobs on one site are serialised by SQLite only, transaction by          *)
(* transaction.  add_content has two transactions: the upsert, committed   *)
(* at line 319, and the cleanup, whose first statement that takes the      *)
(* write lock is its first DELETE and which is committed when the with     *)
(* block of the connection is left.                                        *)

Instances == { "A", "B" }

ConcConfigs == { [max_entries |-> 2, cleanup_threshold |-> 90] }

ConcCalls ==
  { <<ContentData(id, "t1", "u1", k), NULL>> :
       id \in Ids, k \in { k \in Kids : k.entities = <<>> } }

\* lines 205-319 of one instance: the upsert and its commit; the branch
\* that has nothing to write returns at line 265
UpsertAndCommit(inst, content_data, embedding_bytes) ==
  /\ clock < MaxClock
  /\ inflight[inst].pc = "idle"
  /\ LET now == clock + 1
         up  == Upsert(Tables, content_data, embedding_bytes, now)
         cid == PyStr(content_data.id)
     IN /\ content' = up.st.content
        /\ entities' = up.st.entities
        /\ topics' = up.st.topics
        /\ clock' = now
        /\ IF up.early
           THEN /\ last' = [op |-> "add_content", content_id |-> cid,
                            ret |-> TRUE, path |-> up.path, evicted |-> <<>>,
                            live |-> HasRow(up.st.content, cid)]
                /\ UNCHANGED inflight
           ELSE /\ inflight' = [inflight EXCEPT ![inst] =
                                  [pc |-> "cleanup", content_id |-> cid,
                                   path |-> up.path]]
                /\ UNCHANGED last
  /\ UNCHANGED <<config, run>>

\* lines 337-339 of one instance: the cleanup check on the table as it is
\* now, and the return
CleanupAndReturn(inst) ==
  /\ inflight[inst].pc = "cleanup"
  /\ LET evicted == CheckCleanupRows(config, content)
         st      == RemoveAll(Tables, RowIds(evicted))
     IN /\ content' = st.content
        /\ entities' = st.entities
        /\ topics' = st.topics
        /\ last' = [op |-> "add_content", content_id |-> inflight[inst].content_id,
                    ret |-> TRUE, path |-> inflight[inst].path,
                    evicted |-> evicted,
                    live |-> HasRow(st.content, inflight[inst].content_id)]
  /\ inflight' = [inflight EXCEPT ![inst] = Idle]
  /\ UNCHANGED <<config, clock, run>>

InitConc ==
  /\ config \in ConcConfigs
  /\ content = <<>>
  /\ entities = [cid \in ContentIds |-> <<>>]
  /\ topics = [cid \in ContentIds |-> <<>>]
  /\ clock = 0
  /\ last = NoCall
  /\ inflight = [inst \in Instances |-> Idle]
  /\ run = NoRun

NextConc ==
  \/ \E inst \in Instances, call \in ConcCalls : UpsertAndCommit(inst, call[1], call[2])
  \/ \E inst \in Instances : CleanupAndReturn(inst)

SpecConc == InitConc /\ [][NextConc]_vars

----------------------------------------------------------------------------
(* Store failures.  A failure is an exception of sqlite3 raised by a       *)
(* statement or a commit: "txn" in the upsert transaction, up to and       *)
(* including the commit of line 319; "cleanup" inside _check_cleanup_needed*)
(* or _perform_cleanup; "exit" in the commit that leaves the with block of *)
(* the connection.                                                         *)

Faults == { "none", "txn", "cleanup", "exit" }

\* an except clause that lets the exception through
OnStoreError_Reraise(st) == [st |-> st, ret |-> FALSE, raised |-> TRUE]

\* except Exception: log, return False (lines 341-343 and 370-372); the
\* open transaction is rolled back when the with block is left
OnStoreError(st) == [st |-> st, ret |-> FALSE, raised |-> FALSE]

\* add_content when the store fails at the step fault; a cleanup that
\* fails has deleted the first done of the rows it selected, its exception
\* ends in the except clause of the helper and the deletes are committed
\* with the connection
AddContentOutcome(cfg, st, content_data, embedding_bytes, now, fault, done) ==
  LET up  == Upsert(st, content_data, embedding_bytes, now)
      res == AddContentResult(cfg, st, content_data, embedding_bytes, now)
  IN CASE fault = "none"    -> [st |-> res.st, ret |-> TRUE, raised |-> FALSE]
       [] fault = "txn"     -> OnStoreError(st)
       [] fault = "cleanup" ->
            [st |-> RemoveAll(up.st, RowIds(SubSeq(res.evicted, 1, done))),
             ret |-> TRUE, raised |-> FALSE]
       [] fault = "exit"    -> OnStoreError(up.st)

\* the steps at which a call with these arguments can fail: the cleanup
\* when the call reaches it, the final commit when the cleanup left deletes
\* to commit
CanFail(cfg, st, content_data, embedding_bytes, now, fault, done) ==
  LET up  == Upsert(st, content_data, embedding_bytes, now)
      res == AddContentResult(cfg, st, content_data, embedding_bytes, now)
  IN CASE fault = "cleanup" -> ~up.early /\ done < Max(1, Len(res.evicted))
       [] fault = "exit"    -> Len(res.evicted) > 0 /\ done = 0
       [] OTHER             -> done = 0

\* remove_content when one of its statements or its commit fails
RemoveContentFailing(content_id) ==
  /\ LET out == OnStoreError(Tables)
     IN /\ content' = out.st.content
        /\ entities' = out.st.entities
        /\ topics' = out.st.topics
        /\ last' = [op |-> "remove_content", content_id |-> content_id,
                    input |-> NONE, embedding_bytes |-> NULL,
                    ret |-> out.ret, raised |-> out.raised, fault |-> "txn",
                    path |-> "delete", repeat |-> FALSE,
                    existed |-> HasRow(content, content_id),
                    unchanged |-> out.st = Tables,
                    count_after_upsert |-> 0, evicted |-> <<>>]
  /\ UNCHANGED <<config, clock, inflight, run>>

----------------------------------------------------------------------------
(* The statements of add_content on a database file that another           *)
(* connection writes.  sqlite3 opens the transaction of a connection with  *)
(* its first INSERT, UPDATE or DELETE: the SELECT of line 217 runs before  *)
(* it and its read lock is released when fetchone has returned, so another *)
(* connection can commit between the existence check and the write.  The  *)
(* calls of one instance are serialised by db_lock; the delete endpoint    *)
(* and every bulk job have an instance of their own.  content_id is        *)
(* UNIQUE, foreign keys are not enforced (no PRAGMA foreign_keys).         *)

RaceConfigs == { [max_entries |-> 10000, cleanup_threshold |-> 90] }

RaceCalls ==
  { <<ContentData("id1", t, "u1", k), NULL>> :
       t \in Titles, k \in { k \in Kids : k.has_entities } }
    \cup { <<ContentData("id2", "t1", "u1", k), NULL>> :
             k \in { k \in Kids : ~k.has_entities } }

\* cursor.fetchone() of line 218: the row of content_id, or nothing
SelectExisting(rows, content_id) ==
  IF HasRow(rows, content_id) THEN << RowOf(rows, content_id) >> ELSE <<>>

\* UPDATE content ... WHERE content_id = ?: the row that is there now
UpdateWhere(rows, content_id, title, url, content_hash, embedding_bytes, now) ==
  IF HasRow(rows, content_id)
  THEN ReplaceRow(rows, content_id,
                  UpdateRow(RowOf(rows, content_id), title, url, content_hash,
                            embedding_bytes, now))
  ELSE rows

\* lines 271-276 on the table as it is now: the UNIQUE constraint on
\* content_id raises sqlite3.IntegrityError, caught at line 341
InsertOutcome(st, row) ==
  IF HasRow(st.content, row.content_id)
  THEN OnStoreError(st)
  ELSE [st |-> [st EXCEPT !.content = Append(st.content, row)],
        ret |-> TRUE, raised |-> FALSE]

\* lines 222-319 for the row that the SELECT returned, on the tables as
\* they are when the first write statement runs
WriteAfterSelect(st, existing, content_data, embedding_bytes, now) ==
  LET content_id   == PyStr(content_data.id)
      url          == PyStr(content_data.url)
      title        == content_data.title
      content_hash == GenerateContentHash(content_data)
  IN IF existing # <<>>
     THEN IF NeedsUpdate(existing[1].hash, content_hash, embedding_bytes,
                         existing[1].embedding)
          THEN [st |-> AddChildren(
                         DropChildren(
                           [st EXCEPT !.content =
                              UpdateWhere(st.content, content_id, title, url,
                                          content_hash, embedding_bytes, now)],
                           content_id),
                         content_id, content_data),
                ret |-> TRUE, raised |-> FALSE]
          ELSE IF content_data.has_entities \/ content_data.has_topics
               THEN [st |-> AddChildren(DropChildren(st, content_id),
                                        content_id, content_data),
                     ret |-> TRUE, raised |-> FALSE]
               ELSE [st |-> st, ret |-> TRUE, raised |-> FALSE]
     ELSE LET ins == InsertOutcome(st, NewRow(content_id, title, url, content_hash,
                                              embedding_bytes, now))
          IN IF ins.ret
             THEN [st |-> AddChildren(ins.st, content_id, content_data),
                   ret |-> TRUE, raised |-> FALSE]
             ELSE ins

\* lines 205-218 of one instance: db_lock, connect, the existence check
CheckExisting(inst, content_data, embedding_bytes) ==
  /\ inflight[inst].pc = "idle"
  /\ Cardinality({ i \in Instances : inflight[i].pc # "idle" }) + clock < MaxClock
  /\ inflight' = [inflight EXCEPT ![inst] =
                    [pc |-> "selected", content_id |-> PyStr(content_data.id),
                     path |-> "none", input |-> content_data,
                     embedding_bytes |-> embedding_bytes,
                     existing |-> SelectExisting(content, PyStr(content_data.id))]]
  /\ UNCHANGED <<config, content, entities, topics, clock, last, run>>

\* lines 222-343 of one instance: the write statements, the commit and the
\* return; serial is what the call leaves when check and write are one step
WriteAndCommit(inst) ==
  /\ inflight[inst].pc = "selected"
  /\ LET call == inflight[inst]
         now  == clock + 1
         out  == WriteAfterSelect(Tables, call.existing, call.input,
                                  call.embedding_bytes, now)
     IN /\ content' = out.st.content
        /\ entities' = out.st.entities
        /\ topics' = out.st.topics
        /\ clock' = now
        /\ last' = [op |-> "add_content", content_id |-> call.content_id,
                    ret |-> out.ret, path |-> "race", evicted |-> <<>>,
                    live |-> HasRow(out.st.content, call.content_id),
                    stale |-> call.existing # SelectExisting(content, call.content_id),
                    serial |-> out.st = Upsert(Tables, call.input,
                                               call.embedding_bytes, now).st]
  /\ inflight' = [inflight EXCEPT ![inst] = Idle]
  /\ UNCHANGED <<config, run>>

InitRace ==
  /\ config \in RaceConfigs
  /\ content = <<>>
  /\ entities = [cid \in ContentIds |-> <<>>]
  /\ topics = [cid \in ContentIds |-> <<>>]
  /\ clock = 0
  /\ last = NoCall
  /\ inflight = [inst \in Instances |-> Idle]
  /\ run = NoRun

NextRace ==
  \/ \E inst \in Instances, call \in RaceCalls : CheckExisting(inst, call[1], call[2])
  \/ \E inst \in Instances : WriteAndCommit(inst)
  \/ \E content_id \in { "id1", "id2" } : RemoveContent(content_id)

SpecRace == InitRace /\ [][NextRace]_vars

----------------------------------------------------------------------------
(* analyze_content of EnhancedContentAnalyzer.  A content is a sequence of *)
(* blocks separated by blank lines, a block a sequence of lines separated  *)
(* by single newlines, a line its stripped length and the embedding the    *)
(* model gives for text that begins with it.  The anchor generator is a    *)
(* function of the paragraph text and the target title, here of the       *)
(* target title alone.  A suggestion carries target_id, the content_id of *)
(* the record it was made from, and paragraph_len, the length of the      *)
(* paragraph it was made from, which the program does not return.         *)

CandidatesPerParagraph == 10

SingleNewlineMinLen == 20

\* the defaults of EnhancedContentAnalyzer; min_relevance and min_confidence
\* in percent
AnalyzerConfig ==
  [min_relevance |-> 45, min_confidence |-> 60,
   max_links_per_paragraph |-> 2, max_suggestions |-> 15,
   min_paragraph_length |-> 50, min_content_length |-> 100]

Line(len, vec) == [len |-> len, vec |-> vec]

RECURSIVE SumLen(_)
SumLen(lines) == IF lines = <<>> THEN 0 ELSE Head(lines).len + SumLen(Tail(lines))

\* the lines of a block joined by single newlines
JoinLines(lines) == [len |-> SumLen(lines) + Len(lines) - 1, vec |-> lines[1].vec]

\* len(content) of a content text
ContentLength(text) ==
  IF text = <<>> THEN 0
  ELSE SumLen([i \in 1..Len(text) |-> JoinLines(text[i])])
         + 2 * (Len(text) - 1)

\* a split that keeps every paragraph
SplitIntoParagraphs_KeepShort(acfg, text) ==
  [i \in 1..Len(text) |-> JoinLines(text[i])]

\* _split_into_paragraphs: split on blank lines; when that gives one piece
\* with newlines in it, split on single newlines and drop lines of at most
\* 20 characters; keep the paragraphs of at least min_paragraph_length
SplitIntoParagraphs(acfg, text) ==
  LET blocks == [i \in 1..Len(text) |-> JoinLines(text[i])]
      pieces == IF Len(text) = 1 /\ Len(text[1]) > 1
                THEN SelectSeq(text[1], LAMBDA l : l.len > SingleNewlineMinLen)
                ELSE blocks
  IN SelectSeq(pieces, LAMBDA p : p.len >= acfg.min_paragraph_length)

\* the options generate_anchor_options returns for a paragraph and a
\* target, highest score first (_filter_anchor_candidates sorts them, as
\* _find_anchor_options of ContentAnalyzer does); confidence in percent
AnchorOptionsOf(target_title) ==
  IF target_title = "t1"
  THEN << [text |-> "x1", confidence |-> 80], [text |-> "x2", confidence |-> 80],
          [text |-> "x3", confidence |-> 70] >>
  ELSE IF target_title = "t2"
  THEN << [text |-> "y1", confidence |-> 65], [text |-> "y2", confidence |-> 30] >>
  ELSE << [text |-> "z1", confidence |-> 40] >>

\* the option with the lowest confidence
BestAnchor_Last(anchor_options) == anchor_options[Len(anchor_options)]

\* max(anchor_options, key=confidence), and anchor_options[0] of a list
\* sorted by confidence: the first option of the highest confidence
BestAnchor(anchor_options) ==
  anchor_options[CHOOSE i \in 1..Len(anchor_options) :
                   \A j \in 1..Len(anchor_options) :
                      \/ anchor_options[i].confidence > anchor_options[j].confidence
                      \/ /\ anchor_options[i].confidence = anchor_options[j].confidence
                         /\ i <= j]

\* confidence of the best anchor option for a target, in percent
AnchorConfidence(target_title) == BestAnchor(AnchorOptionsOf(target_title)).confidence

\* text of the best anchor option for a target
AnchorText(target_title) == BestAnchor(AnchorOptionsOf(target_title)).text

\* a paragraph that never has its links
ParagraphFull_Never(acfg, links) == FALSE

\* processed_targets_for_paragraph.get(para_idx, 0) >= max_links_per_paragraph
ParagraphFull(acfg, links) == Len(links) >= acfg.max_links_per_paragraph

\* the inner loop of lines 205-246: targets in result order, each with a
\* suitable anchor, until the paragraph has max_links_per_paragraph links
RECURSIVE LinksOfParagraph(_, _, _, _, _)
LinksOfParagraph(acfg, para_idx, paragraph, targets, links) ==
  IF targets = <<>> \/ ParagraphFull(acfg, links)
  THEN links
  ELSE LET target == Head(targets)
           conf   == AnchorConfidence(target.title)
       IN LinksOfParagraph(acfg, para_idx, paragraph, Tail(targets),
            IF conf >= acfg.min_confidence
            THEN Append(links, [paragraph_index |-> para_idx,
                                paragraph_len |-> paragraph.len,
                                target_url |-> target.url,
                                target_title |-> target.title,
                                relevance |-> target.similarity,
                                anchor_confidence |-> conf,
                                anchor_text |-> AnchorText(target.title),
                                target_id |-> target.content_id])
            ELSE links)

\* What can go wrong in one analysis: the exception of a stage, for the
\* stages of the paragraph loop at the paragraph with index para.
\* "no_model" is the sentence transformer that failed to load.
Stages == { "none", "no_model", "store_open", "basic_analysis", "embedding",
            "search", "anchor", "ranking" }

NoFault == [stage |-> "none", para |-> 0]

\* the targets of one paragraph: none when its embedding is None
\* (_generate_embedding catches the exception of the model) or when the
\* scan of the store fails (get_all_content_with_embeddings returns [])
TargetsOfParagraph(acfg, rows, paragraph, para_idx, url, fault) ==
  IF fault.para = para_idx /\ fault.stage \in { "embedding", "search" }
  THEN <<>>
  ELSE FindRelatedContentSemantic(rows, paragraph.vec, url,
                                  CandidatesPerParagraph, acfg.min_relevance)

\* the loop over the paragraphs, lines 175-249; idx counts from 1,
\* paragraph_index from 0
RECURSIVE FindOpportunities(_, _, _, _, _, _)
FindOpportunities(acfg, rows, paragraphs, idx, url, fault) ==
  IF idx > Len(paragraphs) THEN <<>>
  ELSE LinksOfParagraph(acfg, idx - 1, paragraphs[idx],
                        TargetsOfParagraph(acfg, rows, paragraphs[idx], idx - 1, url, fault),
                        <<>>)
         \o FindOpportunities(acfg, rows, paragraphs, idx + 1, url, fault)

\* key=(relevance, anchor_confidence), reverse=True
OpportunityBefore(a, b) ==
  \/ a.relevance > b.relevance
  \/ a.relevance = b.relevance /\ a.anchor_confidence > b.anchor_confidence

\* all_opportunities.sort(...): stable, highest key first
RECURSIVE SortOpportunities(_)
SortOpportunities(items) ==
  IF items = <<>> THEN <<>>
  ELSE LET i == CHOOSE i \in 1..Len(items) :
                  /\ \A j \in 1..Len(items) : ~OpportunityBefore(items[j], items[i])
                  /\ \A j \in 1..(i - 1) : OpportunityBefore(items[i], items[j])
       IN <<items[i]>> \o SortOpportunities(RemoveAt(items, i))

\* a list that is not cut to max_suggestions
Truncate_All(acfg, items) == items

\* all_opportunities[:max_suggestions]
Truncate(acfg, items) == SubSeq(items, 1, Min(acfg.max_suggestions, Len(items)))

\* _format_error_response of a message and the message of the exception
\* it quotes
FormatErrorResponse(error_message) ==
  [status |-> "error", link_suggestions |-> <<>>,
   error |-> error_message[1], cause |-> error_message[2], raised |-> FALSE]

\* _format_success_response
FormatSuccessResponse(suggestions) ==
  [status |-> "success", link_suggestions |-> suggestions,
   error |-> NONE, cause |-> NONE, raised |-> FALSE]

\* the exception of the stage reaches the except clause of lines 263-265:
\* opening the store and sorting always run; generate_anchor_options runs
\* for a paragraph that has a target
ExceptionRaised(acfg, rows, paragraphs, url, fault) ==
  \/ fault.stage \in { "store_open", "ranking" }
  \/ /\ fault.stage = "anchor"
     /\ fault.para < Len(paragraphs)
     /\ TargetsOfParagraph(acfg, rows, paragraphs[fault.para + 1], fault.para,
                           url, fault) # <<>>

\* the stage is reached by the call, so that it can fail there
FaultOccurs(acfg, rows, text, title, url, fault) ==
  \/ fault.stage = "none"
  \/ /\ text # <<>> /\ title # ""
     /\ ContentLength(text) >= acfg.min_content_length
     /\ \/ fault.stage \in { "no_model", "store_open", "basic_analysis", "ranking" }
        \/ /\ fault.stage \in { "embedding", "search" }
           /\ fault.para < Len(SplitIntoParagraphs(acfg, text))
        \/ /\ fault.stage = "anchor"
           /\ ExceptionRaised(acfg, rows, SplitIntoParagraphs(acfg, text), url, fault)

\* analyze_content(content, title, site_id, url) on the rows of the site's
\* store: validation, segmentation, the paragraph loop, ranking
AnalyzeContent(acfg, rows, text, title, url, fault) ==
  IF text = <<>> \/ title = ""
  THEN FormatErrorResponse(<<"Missing required parameters", NONE>>)
  ELSE IF ContentLength(text) < acfg.min_content_length
  THEN FormatErrorResponse(<<"Content too short", NONE>>)
  ELSE LET paragraphs == SplitIntoParagraphs(acfg, text)
       IN IF ExceptionRaised(acfg, rows, paragraphs, url, fault)
          THEN FormatErrorResponse(<<"Internal server error during analysis", fault.stage>>)
          ELSE IF fault.stage = "no_model"
          THEN FormatSuccessResponse(<<>>)
          ELSE FormatSuccessResponse(
                 Truncate(acfg, SortOpportunities(
                   FindOpportunities(acfg, rows, paragraphs, 1, url, fault))))

----------------------------------------------------------------------------
(* analyze_content of ContentAnalyzer, the analyzer without a store: the   *)
(* targets are given, relevance comes from the topics of the paragraph and *)
(* of the target title.                                                    *)

\* _split_into_paragraphs of ContentAnalyzer: every paragraph that is not
\* empty
BasicSplitIntoParagraphs(text) ==
  IF Len(text) = 1 /\ Len(text[1]) > 1
  THEN text[1]
  ELSE [i \in 1..Len(text) |-> JoinLines(text[i])]

\* the topics of a title as the direction they point to
TopicsOf(title) ==
  IF title = "t1" THEN <<1, 0>> ELSE IF title = "t2" THEN <<1, 1>> ELSE <<0, 1>>

\* _calculate_relevance, in percent
BasicRelevance(paragraph, target_title) ==
  CalculateCosineSimilarity(paragraph.vec, TopicsOf(target_title))

\* the loop over the targets, lines 148-196
RECURSIVE BasicLinksOfParagraph(_, _, _, _, _)
BasicLinksOfParagraph(acfg, para_idx, paragraph, targets, links) ==
  IF targets = <<>> \/ ParagraphFull(acfg, links)
  THEN links
  ELSE LET target    == Head(targets)
           relevance == BasicRelevance(paragraph, target.title)
           conf      == AnchorConfidence(target.title)
       IN BasicLinksOfParagraph(acfg, para_idx, paragraph, Tail(targets),
            IF /\ target.url # "" /\ target.title # ""
               /\ relevance >= acfg.min_relevance
               /\ conf >= acfg.min_confidence
            THEN Append(links, [paragraph_index |-> para_idx,
                                paragraph_len |-> paragraph.len,
                                target_url |-> target.url,
                                target_title |-> target.title,
                                relevance |-> relevance,
                                anchor_confidence |-> conf,
                                anchor_text |-> AnchorText(target.title),
                                target_id |-> NONE])
            ELSE links)

\* the loop over the paragraphs, lines 135-196: a paragraph below
\* min_paragraph_length is skipped and keeps its index
RECURSIVE BasicOpportunities(_, _, _, _)
BasicOpportunities(acfg, paragraphs, idx, targets) ==
  IF idx > Len(paragraphs) THEN <<>>
  ELSE (IF paragraphs[idx].len < acfg.min_paragraph_length THEN <<>>
        ELSE BasicLinksOfParagraph(acfg, idx - 1, paragraphs[idx], targets, <<>>))
         \o BasicOpportunities(acfg, paragraphs, idx + 1, targets)

\* ContentAnalyzer.analyze_content(content, title, target_urls), wrapped by
\* analyze_content_task into a success response
BasicAnalyzeContent(acfg, text, targets) ==
  FormatSuccessResponse(
    Truncate(acfg, SortOpportunities(
      BasicOpportunities(acfg, BasicSplitIntoParagraphs(text), 1, targets))))

----------------------------------------------------------------------------
(* Single analyses on a filled store *)

TitleOf(id) == IF id = "id2" THEN "t2" ELSE IF id = "id4" THEN "t3" ELSE "t1"

EmbeddingOf(id) ==
  IF id \in { "id1", "id3" } THEN Pickle(<<1, 0>>)
  ELSE IF id = "id2" THEN Pickle(<<1, 1>>)
  ELSE IF id = "id4" THEN Pickle(<<0, 1>>)
  ELSE NULL

AnalyzeCalls ==
  { <<ContentData(id, TitleOf(id), UrlOf(id),
                  [has_entities |-> TRUE, entities |-> <<>>,
                   has_topics |-> TRUE, topics |-> <<>>]),
      EmbeddingOf(id)>> : id \in Ids }

\* the store defaults with the analyzer defaults, and a configuration with
\* small caps
AnalyzeConfigs ==
  { [max_entries |-> 10000, cleanup_threshold |-> 90,
     min_relevance |-> 45, min_confidence |-> 60,
     max_links_per_paragraph |-> l, max_suggestions |-> m,
     min_paragraph_length |-> 50, min_content_length |-> 100] :
       l \in { 1, 2 }, m \in { 2, 15 } }
    \cup { [max_entries |-> 10000, cleanup_threshold |-> 90,
            min_relevance |-> 45, min_confidence |-> 70,
            max_links_per_paragraph |-> 2, max_suggestions |-> 15,
            min_paragraph_length |-> 50, min_content_length |-> 100] }

AnalyzeTexts ==
  { << <<Line(60, <<1, 0>>)>>, <<Line(60, <<1, 1>>)>>, <<Line(30, <<1, 0>>)>> >>,
    << <<Line(60, <<1, 1>>), Line(10, <<1, 0>>), Line(30, <<1, 0>>), Line(60, <<1, 0>>)>> >>,
    << <<Line(30, <<1, 0>>), Line(30, <<1, 1>>)>>, <<Line(60, <<1, 1>>)>>, <<Line(60, <<1, 0>>)>> >>,
    << <<Line(60, <<1, 0>>)>> >>,
    << <<Line(30, <<1, 0>>)>>, <<Line(30, <<1, 0>>)>>, <<Line(30, <<1, 1>>)>>, <<Line(10, <<1, 0>>)>> >>,
    <<>> }

AnalyzeFaults ==
  { [stage |-> s, para |-> 0] : s \in Stages \ { "embedding", "search", "anchor" } }
    \cup { [stage |-> s, para |-> p] : s \in { "embedding", "search", "anchor" },
                                       p \in 0..1 }

BasicTargets ==
  { <<>>,
    << [url |-> "u1", title |-> "t1"], [url |-> "u2", title |-> "t2"],
       [url |-> "u3", title |-> "t1"], [url |-> "", title |-> "t1"] >> }

\* one analyze_content call of the enhanced analyzer on the store; accepted
\* is all_opportunities as the paragraph loop leaves it
AnalyzeCall(text, title, url, fault) ==
  /\ last.op = "none"
  /\ FaultOccurs(config, content, text, title, url, fault)
  /\ last' = [op |-> "analyze_content", text |-> text, title |-> title,
              url |-> url, fault |-> fault,
              accepted |-> FindOpportunities(config, content,
                             SplitIntoParagraphs(config, text), 1, url, fault),
              result |-> AnalyzeContent(config, content, text, title, url, fault)]
  /\ UNCHANGED <<config, content, entities, topics, clock, inflight, run>>

\* one analyze_content call of the analyzer without a store
BasicAnalyzeCall(text, targets) ==
  /\ last.op = "none"
  /\ last' = [op |-> "basic_analyze", text |-> text, title |-> "t1",
              url |-> NONE, fault |-> NoFault,
              accepted |-> BasicOpportunities(config, BasicSplitIntoParagraphs(text),
                                              1, targets),
              result |-> BasicAnalyzeContent(config, text, targets)]
  /\ UNCHANGED <<config, content, entities, topics, clock, inflight, run>>

InitAnalyze ==
  /\ config \in AnalyzeConfigs
  /\ \E n \in 0..NumIds : \E calls \in [1..n -> AnalyzeCalls] :
        /\ content = StoreAfter(config, calls).content
        /\ entities = StoreAfter(config, calls).entities
        /\ topics = StoreAfter(config, calls).topics
        /\ clock = n
  /\ last = NoCall
  /\ inflight = [inst \in {} |-> Idle]
  /\ run = NoRun

NextAnalyze ==
  \/ \E text \in AnalyzeTexts, title \in { "t1", "" }, url \in { "", "u1" },
        fault \in AnalyzeFaults : AnalyzeCall(text, title, url, fault)
  \/ \E text \in AnalyzeTexts, targets \in BasicTargets : BasicAnalyzeCall(text, targets)

SpecAnalyze == InitAnalyze /\ [][NextAnalyze]_vars

----------------------------------------------------------------------------
(* _process_single_item of BulkContentProcessor, one item after the other. *)
(* An item is a dict of the request: id, title, content (empty when       *)
(* missing), url (None, "" or an address), with the embedding the model   *)
(* gives for its title.                                                    *)

\* str(url) if url else ""
UrlStr(url) == IF Truthy(url) THEN PyStr(url) ELSE ""

\* knowledge_data of lines 492-504: both keys are always there
KnowledgeData(item) ==
  ContentData(item.id, item.title, item.url,
              [has_entities |-> TRUE, entities |-> item.entities,
               has_topics |-> TRUE, topics |-> <<>>])

\* the result dict of the finally block, lines 568-585
ItemResult(item, status, db_success, link_suggestions) ==
  [id |-> item.id, status |-> status, in_knowledge_db |-> db_success,
   link_suggestions |-> link_suggestions]

\* lines 530-537: the suggestions of a successful analysis, none otherwise
SuggestionsOf(analysis) ==
  IF analysis.status = "success" THEN analysis.link_suggestions ELSE <<>>

\* a processor that always generates suggestions
SuggestionsEnabled_Always(cfg, db_content_count) == TRUE

\* lines 516-521: suggestions are generated outside knowledge building mode
\* once get_content_count(), read after the upsert, reaches initial_db_size
SuggestionsEnabled(cfg, db_content_count) ==
  /\ ~cfg.knowledge_building_mode
  /\ db_content_count >= cfg.initial_db_size

\* the tables after the item, the outcome of its add_content call and its
\* result
ProcessSingleItem(cfg, st, item, now, fault, done) ==
  IF item.content = <<>> \/ item.title = ""
  THEN [st |-> st, called |-> FALSE, add |-> OnStoreError(st),
        result |-> ItemResult(item, "error", FALSE, <<>>)]
  ELSE LET add == AddContentOutcome(cfg, st, KnowledgeData(item), item.embedding,
                                    now, fault, done)
       IN IF add.raised
          THEN [st |-> add.st, called |-> TRUE, add |-> add,
                result |-> ItemResult(item, "error", FALSE, <<>>)]
          ELSE [st |-> add.st, called |-> TRUE, add |-> add,
                result |-> ItemResult(item, "success", add.ret,
                  IF SuggestionsEnabled(cfg, Len(add.st.content))
                  THEN SuggestionsOf(AnalyzeContent(AnalyzerConfig, add.st.content,
                                       item.content, item.title,
                                       UrlStr(item.url), NoFault))
                  ELSE <<>>)]

ProcessItem(item, fault, done) ==
  /\ clock < MaxClock
  /\ run.processed < MaxItems
  /\ CanFail(config, Tables, KnowledgeData(item), item.embedding, clock + 1, fault, done)
  /\ LET out == ProcessSingleItem(config, Tables, item, clock + 1, fault, done)
     IN /\ content' = out.st.content
        /\ entities' = out.st.entities
        /\ topics' = out.st.topics
        /\ last' = [op |-> "process_item", item |-> item,
                    content_id |-> PyStr(item.id), fault |-> fault,
                    called |-> out.called,
                    ret |-> out.add.ret, raised |-> out.add.raised,
                    unchanged |-> out.st = Tables,
                    after_failure |-> /\ last.op = "process_item"
                                      /\ last.fault # "none",
                    result |-> out.result]
        /\ run' = [next |-> run.next + 1, processed |-> run.processed + 1]
  /\ clock' = clock + 1
  /\ UNCHANGED <<config, inflight>>

Item(id, title, url, text, embedding) ==
  [id |-> id, title |-> title, url |-> url, content |-> text,
   entities |-> <<>>, embedding |-> embedding]

\* a content of two paragraphs of 60 characters
TwoParagraphs == << <<Line(60, <<1, 0>>)>>, <<Line(60, <<1, 0>>)>> >>

\* the items of the failure specification: no embedding, so no suggestions
FaultItems ==
  { Item(id, "t1", UrlOf(id), TwoParagraphs, NULL) : id \in Ids }
    \cup { Item("id1", "t1", NONE, <<>>, NULL) }

FaultConfigs ==
  { [max_entries |-> 2, cleanup_threshold |-> 90,
     initial_db_size |-> 1, knowledge_building_mode |-> FALSE] }

EmptyRun == [next |-> 1, processed |-> 0]

InitFault ==
  /\ config \in FaultConfigs
  /\ content = <<>>
  /\ entities = [cid \in ContentIds |-> <<>>]
  /\ topics = [cid \in ContentIds |-> <<>>]
  /\ clock = 0
  /\ last = NoCall
  /\ inflight = [inst \in {} |-> Idle]
  /\ run = EmptyRun

NextFault ==
  \/ \E item \in FaultItems, fault \in Faults, done \in 0..NumIds :
        ProcessItem(item, fault, done)
  \/ \E content_id \in Ids : RemoveContent(content_id)
  \/ \E content_id \in Ids : RemoveContentFailing(content_id)

SpecFault == InitFault /\ [][NextFault]_vars

\* the items of the bulk specification: a document without url that is
\* sent under two titles, one with the empty url, and one that is sent
\* under two addresses; for each the model gives an embedding of the title
\* or fails
ItemUrls(id) == IF id = "id3" THEN { "u1", "u2" } ELSE { UrlOf(id) }

ItemTitles(id) == IF id = "id1" THEN Titles ELSE { "t1" }

TitleEmbedding(title) == IF title = "t1" THEN <<1, 0>> ELSE <<0, 1>>

BulkItems ==
  UNION { UNION { { Item(id, t, u, TwoParagraphs, e) :
                      u \in ItemUrls(id),
                      e \in { NULL, Pickle(TitleEmbedding(t)) } } :
                  t \in ItemTitles(id) } : id \in Ids }

BulkConfigs ==
  { [max_entries |-> 10000, cleanup_threshold |-> 90,
     initial_db_size |-> n, knowledge_building_mode |-> kb] :
       n \in { 1, 2 }, kb \in BOOLEAN }

InitBulk ==
  /\ config \in BulkConfigs
  /\ content = <<>>
  /\ entities = [cid \in ContentIds |-> <<>>]
  /\ topics = [cid \in ContentIds |-> <<>>]
  /\ clock = 0
  /\ last = NoCall
  /\ inflight = [inst \in {} |-> Idle]
  /\ run = EmptyRun

NextBulk ==
  \E item \in BulkItems : ProcessItem(item, "none", 0)

SpecBulk == InitBulk /\ [][NextBulk]_vars

----------------------------------------------------------------------------
(* The stores of several sites.  In this specification content, entities   *)
(* and topics map a database file to its table, and run is the state of    *)
(* one BulkContentProcessor: its site_id and the file of its knowledge_db. *)

\* the site_id arguments of the calls: None, or a site
SiteIds == { NONE, "a" }

\* self.site_id = site_id or "default"
SiteOf(site_id) == IF Truthy(site_id) THEN site_id ELSE "default"

\* one database file for all sites
DbPath_Shared(site_id) == "default"

\* db_path = knowledge_{site_id}.db in knowledge_db_dir
DbPath(site_id) == SiteOf(site_id)

DbFiles == { DbPath(site_id) : site_id \in SiteIds }

\* the tables of one file
StoreAt(file) ==
  [content |-> content[file], entities |-> entities[file], topics |-> topics[file]]

\* the documents of a site carry the title of the site, so that a record
\* tells for which site it was upserted
SiteTitle(site_id) == IF SiteOf(site_id) = "default" THEN "t2" ELSE "t1"

SiteUrl(id) == IF id = "id1" THEN "u1" ELSE "u2"

SiteCalls(site_id) ==
  { <<ContentData(id, SiteTitle(site_id), SiteUrl(id),
                  [has_entities |-> TRUE, entities |-> <<"a">>,
                   has_topics |-> FALSE, topics |-> <<>>]),
      Pickle(<<1, 0>>)>> : id \in { "id1", "id2" } }

SiteItems(site_id) ==
  { Item(id, SiteTitle(site_id), SiteUrl(id), TwoParagraphs, Pickle(<<1, 0>>)) :
      id \in { "id1", "id2" } }

SiteConfigs ==
  { [max_entries |-> m, cleanup_threshold |-> 90,
     initial_db_size |-> 1, knowledge_building_mode |-> FALSE] :
       m \in { 2, 10000 } }

\* KnowledgeDatabase(site_id=site_id).add_content(content_data, embedding_bytes)
SiteAddContent(site_id, content_data, embedding_bytes) ==
  /\ clock < MaxClock
  /\ LET file == DbPath(site_id)
         res  == AddContentResult(config, StoreAt(file), content_data,
                                  embedding_bytes, clock + 1)
     IN /\ content' = [content EXCEPT ![file] = res.st.content]
        /\ entities' = [entities EXCEPT ![file] = res.st.entities]
        /\ topics' = [topics EXCEPT ![file] = res.st.topics]
        /\ last' = [op |-> "add_content", site |-> SiteOf(site_id),
                    before |-> Tables, raised |-> FALSE,
                    evicted |-> res.evicted, returned |-> <<>>]
  /\ clock' = clock + 1
  /\ UNCHANGED <<config, inflight, run>>

\* KnowledgeDatabase(site_id=site_id).remove_content(content_id), as the
\* delete endpoint calls it
SiteRemoveContent(site_id, content_id) ==
  /\ HasRow(content[DbPath(site_id)], content_id)
  /\ LET file == DbPath(site_id)
     IN /\ content' = [content EXCEPT ![file] = DeleteContent(@, content_id)]
        /\ entities' = [entities EXCEPT ![file] = DeleteChildren(@, content_id)]
        /\ topics' = [topics EXCEPT ![file] = DeleteChildren(@, content_id)]
        /\ last' = [op |-> "remove_content", site |-> SiteOf(site_id),
                    before |-> Tables, raised |-> FALSE,
                    evicted |-> <<>>, returned |-> <<>>]
  /\ UNCHANGED <<config, clock, inflight, run>>

\* the title and url of the records a search returned
Returned(records) ==
  [i \in 1..Len(records) |-> [title |-> records[i].title, url |-> records[i].url]]

\* the title and url of the targets of a list of suggestions
ReturnedTargets(suggestions) ==
  [i \in 1..Len(suggestions) |->
     [title |-> suggestions[i].target_title, url |-> suggestions[i].target_url]]

\* KnowledgeDatabase(site_id=site_id).find_related_content_semantic(...)
SiteFindRelated(site_id, query_embedding) ==
  /\ last.op \notin { "find_related", "analyze_content" }
  /\ last' = [op |-> "find_related", site |-> SiteOf(site_id),
              before |-> Tables, raised |-> FALSE, evicted |-> <<>>,
              returned |-> Returned(FindRelatedContentSemantic(
                              content[DbPath(site_id)], query_embedding, NONE, 2, 0))]
  /\ UNCHANGED <<config, content, entities, topics, clock, inflight, run>>

\* analyze_content(content, title, site_id, url): line 159 opens the store
\* of the site_id of the call
SiteAnalyzeContent(site_id, text) ==
  /\ last.op \notin { "find_related", "analyze_content" }
  /\ last' = [op |-> "analyze_content", site |-> SiteOf(site_id),
              before |-> Tables, raised |-> FALSE, evicted |-> <<>>,
              returned |-> ReturnedTargets(
                 AnalyzeContent(AnalyzerConfig, content[DbPath(site_id)], text,
                                "t1", "", NoFault).link_suggestions)]
  /\ UNCHANGED <<config, content, entities, topics, clock, inflight, run>>

\* BulkContentProcessor(config_path, site_id)
NewProcessor(site_id) ==
  [site_id |-> SiteOf(site_id), knowledge_db |-> DbPath(SiteOf(site_id)),
   switched |-> FALSE]

\* lines 141-150 of process_content_items: the site of the call, and the
\* processor after the switch to a new site.  The switch sets site_id and
\* knowledge_db and then calls EnhancedContentAnalyzer with two arguments,
\* which its constructor does not take: the TypeError ends the call.
SwitchesSite(processor, site_id) == Truthy(site_id) /\ site_id # processor.site_id

CurrentSiteId(processor, site_id) ==
  IF Truthy(site_id) THEN site_id ELSE processor.site_id

SwitchSite(processor, site_id) ==
  [site_id |-> site_id, knowledge_db |-> DbPath(site_id), switched |-> TRUE]

\* process_content_items(content_items, site_id) of the processor with one
\* item: the item is upserted into self.knowledge_db, its suggestions come
\* from the store that analyze_content opens for the site of the call
ProcessContentItems(site_id, item) ==
  IF SwitchesSite(run, site_id)
  THEN /\ run' = SwitchSite(run, site_id)
       /\ last' = [op |-> "process_content_items", site |-> site_id,
                   before |-> Tables, raised |-> TRUE,
                   evicted |-> <<>>, returned |-> <<>>]
       /\ UNCHANGED <<config, content, entities, topics, clock, inflight>>
  ELSE /\ clock < MaxClock
       /\ LET site == CurrentSiteId(run, site_id)
              file == run.knowledge_db
              add  == AddContentResult(config, StoreAt(file), KnowledgeData(item),
                                       item.embedding, clock + 1)
              rows == IF DbPath(site) = file THEN add.st.content
                      ELSE content[DbPath(site)]
          IN /\ content' = [content EXCEPT ![file] = add.st.content]
             /\ entities' = [entities EXCEPT ![file] = add.st.entities]
             /\ topics' = [topics EXCEPT ![file] = add.st.topics]
             /\ last' = [op |-> "process_content_items", site |-> site,
                         before |-> Tables, raised |-> FALSE,
                         evicted |-> add.evicted,
                         returned |->
                           IF SuggestionsEnabled(config, Len(add.st.content))
                           THEN ReturnedTargets(SuggestionsOf(
                                  AnalyzeContent(AnalyzerConfig, rows, item.content,
                                                 item.title, UrlStr(item.url), NoFault)))
                           ELSE <<>>]
       /\ clock' = clock + 1
       /\ UNCHANGED <<config, inflight, run>>

InitSites ==
  /\ config \in SiteConfigs
  /\ content = [file \in DbFiles |-> <<>>]
  /\ entities = [file \in DbFiles |-> [cid \in ContentIds |-> <<>>]]
  /\ topics = [file \in DbFiles |-> [cid \in ContentIds |-> <<>>]]
  /\ clock = 0
  /\ last = [op |-> "none", site |-> "default", before |-> Tables,
             raised |-> FALSE, evicted |-> <<>>, returned |-> <<>>]
  /\ inflight = [inst \in {} |-> Idle]
  /\ \E site_id \in SiteIds : run = NewProcessor(site_id)

NextSites ==
  \/ \E site_id \in SiteIds : \E call \in SiteCalls(site_id) :
        SiteAddContent(site_id, call[1], call[2])
  \/ \E site_id \in SiteIds, content_id \in { "id1", "id2" } :
        SiteRemoveContent(site_id, content_id)
  \/ \E site_id \in SiteIds : SiteFindRelated(site_id, <<1, 1>>)
  \/ \E site_id \in SiteIds : SiteAnalyzeContent(site_id, TwoParagraphs)
  \/ \E site_id \in SiteIds : \E item \in SiteItems(CurrentSiteId(run, site_id)) :
        ProcessContentItems(site_id, item)

SpecSites == InitSites /\ [][NextSites]_vars

----------------------------------------------------------------------------
(* generate_anchor_options of AnchorTextGenerator.  A string is a sequence *)
(* of symbols: a word, a blank or a punctuation mark.  Scores are in       *)
(* hundredths.                                                             *)

MinAnchorLength == 3

MaxAnchorLength == 60

MinWords == 2

MaxWords == 6

KeywordMinLen == 4

KeywordWindow == 3

MaxOptions == 10

\* string.punctuation, as far as the texts use it
Punctuation == { ",", ".", "\"" }

\* the words of the texts, with str.lower(), len() and the tag that pos_tag
\* gives them
WordInfo(w) ==
  CASE w = "Click"  -> [lower |-> "click",  len |-> 5, tag |-> "NN"]
    [] w = "click"  -> [lower |-> "click",  len |-> 5, tag |-> "NN"]
    [] w = "here"   -> [lower |-> "here",   len |-> 4, tag |-> "RB"]
    [] w = "blue"   -> [lower |-> "blue",   len |-> 4, tag |-> "JJ"]
    [] w = "Cotton" -> [lower |-> "cotton", len |-> 6, tag |-> "NN"]
    [] w = "cotton" -> [lower |-> "cotton", len |-> 6, tag |-> "NN"]
    [] w = "shirt"  -> [lower |-> "shirt",  len |-> 5, tag |-> "NN"]
    [] w = "guide"  -> [lower |-> "guide",  len |-> 5, tag |-> "NN"]
    [] w = "tie"    -> [lower |-> "tie",    len |-> 3, tag |-> "NN"]
    [] w = "a"      -> [lower |-> "a",      len |-> 1, tag |-> "DT"]
    [] w = "how"    -> [lower |-> "how",    len |-> 3, tag |-> "WRB"]
    [] w = "to"     -> [lower |-> "to",     len |-> 2, tag |-> "TO"]
    [] w = "tips"   -> [lower |-> "tips",   len |-> 4, tag |-> "NNS"]
    [] w = "for"    -> [lower |-> "for",    len |-> 3, tag |-> "IN"]
    [] w = "best"   -> [lower |-> "best",   len |-> 4, tag |-> "JJS"]
    [] w = "way"    -> [lower |-> "way",    len |-> 3, tag |-> "NN"]
    [] w = "ideas"  -> [lower |-> "ideas",  len |-> 5, tag |-> "NNS"]
    [] w = "men"    -> [lower |-> "men",    len |-> 3, tag |-> "NNS"]
    [] w = "women"  -> [lower |-> "women",  len |-> 5, tag |-> "NNS"]
    [] w = "tutorial" -> [lower |-> "tutorial", len |-> 8, tag |-> "NN"]
    [] w = "basics" -> [lower |-> "basics", len |-> 6, tag |-> "NNS"]
    [] w = ","      -> [lower |-> ",",      len |-> 1, tag |-> ","]
    [] w = "."      -> [lower |-> ".",      len |-> 1, tag |-> "."]
    [] w = " "      -> [lower |-> " ",      len |-> 1, tag |-> " "]

\* str.lower()
Lower(str) == [i \in 1..Len(str) |-> WordInfo(str[i]).lower]

\* len(str)
RECURSIVE CharLen(_)
CharLen(str) == IF str = <<>> THEN 0 ELSE WordInfo(Head(str)).len + CharLen(Tail(str))

\* str.find(sub, start): the least index at or after start where sub
\* occurs, counted in symbols from 0, or -1
FindFrom(str, sub, start) ==
  LET hits == { i \in (start + 1)..(Len(str) - Len(sub) + 1) :
                   SubSeq(str, i, i + Len(sub) - 1) = sub }
  IN IF hits = {} THEN -1 ELSE (CHOOSE i \in hits : \A j \in hits : i <= j) - 1

Find(str, sub) == FindFrom(str, sub, 0)

\* sub.lower() in str.lower()
ContainsLower(str, sub) == Find(Lower(str), Lower(sub)) # -1

\* word_tokenize: the words and the punctuation marks, without the blanks
WordTokenize(str) == SelectSeq(str, LAMBDA w : w # " ")

\* " ".join(tokens)
RECURSIVE JoinTokens(_)
JoinTokens(tokens) ==
  IF Len(tokens) <= 1 THEN tokens
  ELSE <<Head(tokens), " ">> \o JoinTokens(Tail(tokens))

\* str.split(): the runs of symbols between blanks
RECURSIVE SplitWords(_)
SplitWords(str) ==
  IF str = <<>> THEN <<>>
  ELSE IF Head(str) = " " THEN SplitWords(Tail(str))
  ELSE LET ends == { i \in 1..Len(str) : i = Len(str) \/ str[i + 1] = " " }
           e    == CHOOSE i \in ends : \A j \in ends : i <= j
       IN <<SubSeq(str, 1, e)>> \o SplitWords(SubSeq(str, e + 1, Len(str)))

\* str.strip(string.punctuation + " ")
RECURSIVE StripPunctuation(_)
StripPunctuation(str) ==
  IF str = <<>> THEN <<>>
  ELSE IF Head(str) \in Punctuation \cup { " " } THEN StripPunctuation(Tail(str))
  ELSE IF str[Len(str)] \in Punctuation \cup { " " }
  THEN StripPunctuation(SubSeq(str, 1, Len(str) - 1))
  ELSE str

\* sent_tokenize: a sentence ends after a full stop
RECURSIVE SentTokenize(_)
SentTokenize(str) ==
  LET stops == { i \in 1..Len(str) : str[i] = "." }
  IN IF str = <<>> THEN <<>>
     ELSE IF stops = {} THEN <<str>>
     ELSE LET e == CHOOSE i \in stops : \A j \in stops : i <= j
          IN <<SubSeq(str, 1, e)>> \o SentTokenize(SubSeq(str, e + 1, Len(str)))

RECURSIVE Concat(_)
Concat(seqs) == IF seqs = <<>> THEN <<>> ELSE Head(seqs) \o Concat(Tail(seqs))

\* phrases to avoid as complete anchor text
WeakPhrases ==
  { <<"click", " ", "here">>, <<"read", " ", "more">>, <<"learn", " ", "more">>,
    <<"find", " ", "out", " ", "more">>, <<"discover">>, <<"check", " ", "out">>,
    <<"see", " ", "here">>, <<"view", " ", "this">>, <<"this", " ", "page">>,
    <<"full", " ", "article">>, <<"details", " ", "here">>, <<"more", " ", "info">>,
    <<"click">>, <<"here">>, <<"link">>, <<"url">>, <<"website">> }

WeakStarters ==
  { "the", "a", "an", "and", "or", "but", "because", "since", "when", "by",
    "for", "with", "about", "against", "before", "after", "above", "below",
    "to", "of", "in", "on", "at", "from", "into", "during", "until", "while" }

WeakEndings ==
  { "the", "a", "an", "and", "or", "but", "if", "with", "of", "to", "for",
    "in", "on", "at", "by", "about", "as", "into", "like", "through", "after",
    "over", "between", "out", "against", "during", "without", "before", "under" }

\* the words of WordInfo whose letters begin with a weak starter, and those
\* whose letters end with a weak ending (str.startswith / str.endswith)
WeakPrefixed == { "a", "to", "for" }

WeakSuffixed == { "a", "cotton", "to", "for", "ideas" }

GoodPosPatterns ==
  << <<"JJ", "NN">>, <<"JJ", "NNS">>, <<"JJ", "JJ", "NN">>, <<"JJ", "NN", "NN">>,
     <<"NN", "NN">>, <<"NN", "NNS">>, <<"NN", "NN", "NN">>,
     <<"VB", "DT", "NN">>, <<"VB", "JJ", "NNS">>, <<"VBG", "JJ", "NNS">>,
     <<"NN", "IN", "NN">>, <<"JJ", "NN", "IN", "NNS">>, <<"NN", "NN", "IN", "NN">>,
     <<"WRB", "TO", "VB", "NNS">>, <<"WRB", "TO", "VB", "JJ", "NNS">> >>

\* tag.startswith(pos) on the Penn Treebank tags
TagStartsWith(tag, pos) ==
  \/ tag = pos
  \/ <<pos, tag>> \in { <<"NN", "NNS">>, <<"NN", "NNP">>, <<"NN", "NNPS">>,
                        <<"JJ", "JJR">>, <<"JJ", "JJS">>,
                        <<"VB", "VBD">>, <<"VB", "VBG">>, <<"VB", "VBN">>,
                        <<"VB", "VBP">>, <<"VB", "VBZ">> }

Candidate(phrase, type, position) ==
  [phrase |-> phrase, type |-> type, position |-> position]

\* any(keyword.lower() in phrase.lower() for keyword in target_keywords)
HasKeyword(phrase, target_keywords) ==
  \E k \in 1..Len(target_keywords) : ContainsLower(phrase, <<target_keywords[k]>>)

\* lines 178-192: position = text.lower().find(phrase.lower()), 0 when the
\* phrase is not found
NaturalCandidate(text, phrase) ==
  << Candidate(phrase, "natural",
               IF Find(Lower(text), Lower(phrase)) # -1
               THEN Find(Lower(text), Lower(phrase)) ELSE 0) >>

\* the phrase of a pattern at token i of a sentence, if it matches and
\* contains a target keyword
NaturalAt(text, target_keywords, tokens, i, pattern) ==
  IF /\ i + Len(pattern) - 1 <= Len(tokens)
     /\ \A j \in 1..Len(pattern) :
           TagStartsWith(WordInfo(tokens[i + j - 1]).tag, pattern[j])
     /\ HasKeyword(JoinTokens(SubSeq(tokens, i, i + Len(pattern) - 1)), target_keywords)
  THEN NaturalCandidate(text, JoinTokens(SubSeq(tokens, i, i + Len(pattern) - 1)))
  ELSE <<>>

\* _extract_natural_phrases
ExtractNaturalPhrases(text, target_keywords) ==
  LET sentences == SentTokenize(text)
  IN Concat([s \in 1..Len(sentences) |->
       LET tokens == WordTokenize(sentences[s])
       IN Concat([i \in 1..Len(tokens) |->
            Concat([p \in 1..Len(GoodPosPatterns) |->
              NaturalAt(text, target_keywords, tokens, i, GoodPosPatterns[p])])])])

IntentPrefixes ==
  << <<"how", " ", "to">>, <<"guide", " ", "to">>, <<"tips", " ", "for">>,
     <<"best", " ", "way", " ", "to">> >>

IntentSuffixes ==
  << <<"guide">>, <<"tips">>, <<"ideas">>, <<"for", " ", "men">>,
     <<"for", " ", "women">>, <<"tutorial">>, <<"basics">> >>

\* the nouns of more than 3 letters of the title
TitleKeywords(target_title) ==
  SelectSeq(WordTokenize(target_title),
            LAMBDA w : TagStartsWith(WordInfo(w).tag, "NN") /\ WordInfo(w).len > 3)

\* a synthesized phrase, if it occurs in the text
IntentCandidate(text, phrase) ==
  IF Find(Lower(text), Lower(phrase)) # -1
  THEN << Candidate(phrase, "intent", Find(Lower(text), Lower(phrase))) >>
  ELSE <<>>

\* _generate_intent_phrases
GenerateIntentPhrases(text, target_keywords, target_title) ==
  LET all_keywords == target_keywords \o TitleKeywords(target_title)
  IN Concat([k \in 1..Len(all_keywords) |->
       Concat([p \in 1..Len(IntentPrefixes) |->
                 IntentCandidate(text, IntentPrefixes[p] \o <<" ", all_keywords[k]>>)])
       \o Concat([q \in 1..Len(IntentSuffixes) |->
                 IntentCandidate(text, <<all_keywords[k], " ">> \o IntentSuffixes[q])])])

\* the sentence around position pos (counted from 0), stripped of blanks
SentenceAround(text, pos) ==
  LET before == { i \in 1..pos : text[i] = "." }
      after  == { i \in (pos + 1)..Len(text) : text[i] = "." }
      first  == IF before = {} THEN 1
                ELSE (CHOOSE i \in before : \A j \in before : i >= j) + 1
      last_  == IF after = {} THEN Len(text)
                ELSE (CHOOSE i \in after : \A j \in after : i <= j) - 1
      sent   == SubSeq(text, first, last_)
      inner  == { i \in 1..Len(sent) : sent[i] # " " }
  IN IF inner = {} THEN <<>>
     ELSE SubSeq(sent, CHOOSE i \in inner : \A j \in inner : i <= j,
                       CHOOSE i \in inner : \A j \in inner : i >= j)

\* lines 296-306: the window is kept when it has min_words to max_words
\* words
KeywordCandidate(text, phrase, pos) ==
  IF Len(SplitWords(phrase)) >= MinWords /\ Len(SplitWords(phrase)) <= MaxWords
  THEN << Candidate(phrase, "keyword", pos) >> ELSE <<>>

\* lines 284-306: the window around the token i of the sentence, if the
\* keyword is there
KeywordAt(text, keyword, tokens, i, pos) ==
  IF Lower(<<tokens[i]>>) = Lower(WordTokenize(<<keyword>>))
  THEN KeywordCandidate(text,
         StripPunctuation(JoinTokens(
           SubSeq(tokens, Max(1, i - KeywordWindow), Min(Len(tokens), i + KeywordWindow)))),
         pos)
  ELSE <<>>

\* _extract_keyword_phrases: for every keyword of at least 4 letters and
\* every occurrence of it, the windows of its sentence
ExtractKeywordPhrases(text, target_keywords) ==
  Concat([k \in 1..Len(target_keywords) |->
    IF WordInfo(target_keywords[k]).len < KeywordMinLen THEN <<>>
    ELSE Concat([n \in 1..Len(text) |->
           IF Lower(text)[n] # WordInfo(target_keywords[k]).lower THEN <<>>
           ELSE LET tokens == WordTokenize(SentenceAround(text, n - 1))
                IN Concat([i \in 1..Len(tokens) |->
                     KeywordAt(text, target_keywords[k], tokens, i, n - 1)])])])

BaseScore(type) ==
  CASE type = "natural" -> 60 [] type = "intent" -> 80 [] type = "keyword" -> 50
    [] OTHER -> 50

\* the phrases that indicate a search intent
IntentIndicators ==
  { <<"how", " ", "to">>, <<"guide">>, <<"tips">>, <<"tutorial">>,
    <<"for", " ", "men">>, <<"for", " ", "women">> }

\* the number of indices of a sequence that satisfy a test
CountOf(seq, Test(_)) == Cardinality({ i \in 1..Len(seq) : Test(seq[i]) })

\* lines 374-376: score -= 0.5 for a phrase that is a weak phrase
WeakPhrasePenalty(phrase_lower) == IF phrase_lower \in WeakPhrases THEN 50 ELSE 0

\* the score of one candidate, lines 333-392
ScoreOf(candidate, target_keywords, target_title) ==
  LET phrase        == candidate.phrase
      phrase_lower  == Lower(phrase)
      phrase_words  == SplitWords(phrase_lower)
      title_words   == WordTokenize(Lower(target_title))
      word_count    == Len(phrase_words)
      keyword_score == Min(30, 10 * CountOf(target_keywords,
                             LAMBDA kw : ContainsLower(phrase, <<kw>>)))
      length_score  == IF word_count < MinWords THEN -20
                       ELSE IF word_count > MaxWords THEN -10
                       ELSE IF word_count = 2 THEN 5
                       ELSE IF word_count >= 3 /\ word_count <= 4 THEN 10
                       ELSE 0
      title_score   == Min(20, 5 * CountOf(title_words,
                             LAMBDA w : \E k \in 1..Len(phrase_words) :
                                           phrase_words[k] = <<w>>))
      intent_score  == IF \E intent \in IntentIndicators :
                             Find(phrase_lower, intent) # -1
                       THEN 15 ELSE 0
      start_penalty == IF /\ phrase_words # <<>>
                          /\ \E w \in WeakStarters : phrase_words[1] = <<w>>
                       THEN 10 ELSE 0
      end_penalty   == IF /\ phrase_words # <<>>
                          /\ \E w \in WeakEndings : phrase_words[word_count] = <<w>>
                       THEN 10 ELSE 0
      grammar       == IF /\ phrase_lower # <<>>
                          /\ \/ phrase_lower[1] \in WeakPrefixed
                             \/ phrase_lower[Len(phrase_lower)] \in WeakSuffixed
                       THEN 15 ELSE 0
      quotes        == IF /\ phrase # <<>>
                          /\ phrase[1] = "\"" /\ phrase[Len(phrase)] = "\""
                       THEN 5 ELSE 0
  IN Max(0, Min(100, BaseScore(candidate.type) + keyword_score + length_score
                       + title_score + intent_score
                       - WeakPhrasePenalty(phrase_lower)
                       - start_penalty - end_penalty - grammar + quotes))

\* _score_anchor_candidates
ScoreAnchorCandidates(candidates, target_keywords, target_title) ==
  [i \in 1..Len(candidates) |->
     [phrase |-> candidates[i].phrase, type |-> candidates[i].type,
      score |-> ScoreOf(candidates[i], target_keywords, target_title),
      position |-> candidates[i].position]]

\* lines 411-423: the first candidate of each lowercase phrase, if its
\* length is within min_anchor_length and max_anchor_length
UniqueCandidates(candidates) ==
  LET keep == { i \in 1..Len(candidates) :
                  /\ \A j \in 1..(i - 1) :
                        \/ Lower(candidates[j].phrase) # Lower(candidates[i].phrase)
                        \/ CharLen(candidates[j].phrase) < MinAnchorLength
                        \/ CharLen(candidates[j].phrase) > MaxAnchorLength
                  /\ CharLen(candidates[i].phrase) >= MinAnchorLength
                  /\ CharLen(candidates[i].phrase) <= MaxAnchorLength }
      Kept[i \in 0..Len(candidates)] ==
        IF i = 0 THEN <<>>
        ELSE IF i \in keep THEN Append(Kept[i - 1], candidates[i]) ELSE Kept[i - 1]
  IN Kept[Len(candidates)]

\* unique_candidates.sort(key=score, reverse=True): stable, highest first
RECURSIVE SortByScore(_)
SortByScore(items) ==
  IF items = <<>> THEN <<>>
  ELSE LET i == CHOOSE i \in 1..Len(items) :
                  \A j \in 1..Len(items) :
                     \/ items[i].score > items[j].score
                     \/ items[i].score = items[j].score /\ i <= j
       IN <<items[i]>> \o SortByScore(RemoveAt(items, i))

\* _filter_anchor_candidates
FilterAnchorCandidates(candidates) ==
  SubSeq(SortByScore(UniqueCandidates(candidates)), 1,
         Min(MaxOptions, Len(UniqueCandidates(candidates))))

\* generate_anchor_options(text, target_keywords, target_title): the
\* options with their text, confidence and position
GenerateAnchorOptions(text, target_keywords, target_title) ==
  IF text = <<>> \/ target_keywords = <<>> THEN <<>>
  ELSE LET all_phrases == ExtractNaturalPhrases(text, target_keywords)
                            \o GenerateIntentPhrases(text, target_keywords, target_title)
                            \o ExtractKeywordPhrases(text, target_keywords)
           filtered    == FilterAnchorCandidates(
                            ScoreAnchorCandidates(all_phrases, target_keywords,
                                                  target_title))
       IN [i \in 1..Len(filtered) |->
             [text |-> filtered[i].phrase, type |-> filtered[i].type,
              confidence |-> filtered[i].score, position |-> filtered[i].position]]

\* the paragraphs, keywords and titles of the calls
AnchorTexts ==
  { <<>>,
    <<"Click", " ", "here", ".">>,
    <<"Click", " ", "here", " ", "for", " ", "a", " ", "cotton", " ", "shirt", ".">>,
    <<"blue", ",", " ", "cotton", " ", "shirt">>,
    <<"blue", " ", "cotton", " ", "shirt", " ", "guide", ".">>,
    <<"Cotton", " ", " ", "shirt", ".", " ", "how", " ", "to", " ", "tie", " ", "a", " ", "tie", ".">>,
    <<"a", " ", "tie", ".", " ", "cotton", " ", "shirt", " ", "tips", " ", "for", " ", "men", ".">> }

AnchorKeywords ==
  { <<>>, <<"click">>, <<"cotton">>, <<"shirt">>, <<"tie">>,
    <<"cotton", "shirt">>, <<"shirt", "tie">>, <<"click", "here">> }

AnchorTitles ==
  { <<>>, <<"cotton", " ", "shirt", " ", "guide">>, <<"how", " ", "to", " ", "tie", " ", "a", " ", "tie">> }

\* one generate_anchor_options call on the arguments drawn at the start
GenerateCall ==
  /\ last.op = "none"
  /\ last' = [op |-> "generate_anchor_options", text |-> run.text,
              target_keywords |-> run.target_keywords,
              target_title |-> run.target_title,
              result |-> GenerateAnchorOptions(run.text, run.target_keywords,
                                               run.target_title)]
  /\ UNCHANGED <<config, content, entities, topics, clock, inflight, run>>

InitAnchor ==
  /\ config \in SearchConfigs
  /\ content = <<>>
  /\ entities = [cid \in ContentIds |-> <<>>]
  /\ topics = [cid \in ContentIds |-> <<>>]
  /\ clock = 0
  /\ last = NoCall
  /\ inflight = [inst \in {} |-> Idle]
  /\ \E text \in AnchorTexts, target_keywords \in AnchorKeywords,
        target_title \in AnchorTitles :
        run = [text |-> text, target_keywords |-> target_keywords,
               target_title |-> target_title]

NextAnchor == GenerateCall

SpecAnchor == InitAnchor /\ [][NextAnchor]_vars

----------------------------------------------------------------------------
(* process_content_items and _process_batch: one bulk run.  The coroutine  *)
(* runs on the event loop and the items run on the threads of a            *)
(* ThreadPoolExecutor.  stop_processing is called by the stop endpoint, a  *)
(* coroutine of the same loop, so the flag changes only while the run is   *)
(* suspended in `await future`.  run.item_state is the state of the work   *)
(* item of the executor, run.future that of the asyncio future that wraps  *)
(* it, run.done_queue the queue of asyncio.as_completed.                   *)
(* asyncio.CancelledError derives from BaseException (Python 3.8 and       *)
(* later) and is not concurrent.futures.CancelledError, so no except       *)
(* clause of _process_batch, process_content_items or process_bulk_job     *)
(* catches it.  run.completed_at_stop, run.inflight_at_stop and            *)
(* run.started_after_stop record what the items were doing when the flag   *)
(* was set; the program does not keep them.                                *)

ItemKinds == { "valid", "invalid", "raises" }

\* the item at position i of the request: complete, without title, or with
\* a content on which the basic analysis reports an error
RunItem(i, kind) ==
  Item(<<"id1", "id2", "id3", "id4", "id5">>[i],
       IF kind = "invalid" THEN "" ELSE "t1", NONE, TwoParagraphs, NULL)

\* an except clause that reports the item as processed
OnItemException_Success(item) == ItemResult(item, "success", FALSE, <<>>)

\* except Exception of _process_single_item, lines 555-566
OnItemException(item) == ItemResult(item, "error", FALSE, <<>>)

\* _process_single_item of an item whose basic analysis may report an error
\* (lines 453-459)
ProcessSingleItemOf(cfg, st, item, now, kind) ==
  IF kind = "raises"
  THEN [st |-> st, called |-> FALSE, add |-> OnStoreError(st),
        result |-> OnItemException(item)]
  ELSE ProcessSingleItem(cfg, st, item, now, "none", 0)

NumItems == Len(run.items)

\* content_items[batch_start:batch_end]
BatchOf(r) ==
  { i \in 1..Len(r.items) : r.batch_start < i /\ i <= r.batch_start + r.batch_size }

InState(r, s) == { i \in 1..Len(r.items) : r.item_state[i] = s }

\* the indices of a set in ascending order
RECURSIVE Ascending(_)
Ascending(S) ==
  IF S = {} THEN <<>>
  ELSE LET m == CHOOSE x \in S : \A y \in S : x <= y
       IN <<m>> \o Ascending(S \ { m })

\* the idle worker threads take the oldest work items of the executor's
\* queue
RECURSIVE TakeWork(_, _)
TakeWork(item_state, max_workers) ==
  LET queued  == { i \in DOMAIN item_state : item_state[i] = "queued" }
      running == { i \in DOMAIN item_state : item_state[i] = "running" }
  IN IF queued = {} \/ Cardinality(running) >= max_workers
     THEN item_state
     ELSE LET i == CHOOSE x \in queued : \A y \in queued : x <= y
          IN TakeWork([item_state EXCEPT ![i] = "running"], max_workers)

\* the items a step has started
Started(before, after) ==
  { i \in DOMAIN after : after[i] = "running" /\ before[i] # "running" }

\* stats["status"] after the batch loop, lines 263-264
FinalStatus(status) == IF status = "in_progress" THEN "completed" ELSE status

\* the top of the batch loop, lines 180-198, and the submission loop of
\* _process_batch, lines 311-328
SubmitBatch ==
  /\ run.pc = "batch"
  /\ run.batch_start < NumItems
  /\ run' = IF run.stop_signal
            THEN [run EXCEPT !.status = "stopped", !.pc = "returned"]
            ELSE [run EXCEPT
                    !.item_state = TakeWork([i \in 1..NumItems |->
                                      IF i \in BatchOf(run) THEN "queued" ELSE @[i]],
                                     run.max_workers),
                    !.future = [i \in 1..NumItems |->
                                  IF i \in BatchOf(run) THEN "pending" ELSE @[i]],
                    !.pc = "iterate", !.awaited = 0, !.batch_results = <<>>]
  /\ UNCHANGED <<config, content, entities, topics, clock, last, inflight>>

\* _process_single_item of item i returns in its thread; the result reaches
\* the asyncio future unless that has been cancelled, and the thread takes
\* the next work item of the queue
FinishItem(i) ==
  /\ run.pc \in { "iterate", "await", "unwind" }
  /\ run.item_state[i] = "running"
  /\ clock < MaxClock
  /\ LET out == ProcessSingleItemOf(config, Tables, run.items[i], clock + 1, run.kinds[i])
         next_state == TakeWork([run.item_state EXCEPT ![i] = "finished"],
                                run.max_workers)
     IN /\ content' = out.st.content
        /\ entities' = out.st.entities
        /\ topics' = out.st.topics
        /\ run' = [run EXCEPT
                     !.item_state = next_state,
                     !.started_after_stop =
                        IF run.stop_signal
                        THEN @ \cup Started(run.item_state, next_state) ELSE @,
                     !.item_result[i] = << out.result >>,
                     !.upserted = IF out.called THEN @ \cup { i } ELSE @,
                     !.future[i] = IF @ = "pending" THEN "done" ELSE @,
                     !.done_queue = IF run.future[i] = "pending"
                                    THEN Append(@, i) ELSE @]
  /\ clock' = clock + 1
  /\ UNCHANGED <<config, last, inflight>>

\* the top of the as_completed loop, lines 331-338: with the flag set every
\* future that is not done is cancelled; the work items still in the queue
\* are cancelled with them, the running ones are not
NextFuture ==
  /\ run.pc = "iterate"
  /\ run.awaited < Cardinality(BatchOf(run))
  /\ run' = IF run.stop_signal
            THEN [run EXCEPT
                    !.future = [i \in 1..NumItems |->
                                  IF @[i] = "pending" THEN "cancelled" ELSE @[i]],
                    !.item_state = [i \in 1..NumItems |->
                                      IF @[i] = "queued" THEN "cancelled" ELSE @[i]],
                    !.done_queue = @ \o Ascending({ i \in 1..NumItems :
                                                     run.future[i] = "pending" }),
                    !.pc = "await"]
            ELSE [run EXCEPT !.pc = "await"]
  /\ UNCHANGED <<config, content, entities, topics, clock, last, inflight>>

\* result = await future; results.append(result), lines 344-351
AwaitResult ==
  /\ run.pc = "await"
  /\ run.done_queue # <<>>
  /\ run.future[Head(run.done_queue)] = "done"
  /\ LET i == Head(run.done_queue)
     IN run' = [run EXCEPT
                  !.batch_results = Append(@, [index |-> i,
                                               result |-> run.item_result[i][1]]),
                  !.done_queue = Tail(@),
                  !.awaited = @ + 1,
                  !.pc = "iterate"]
  /\ UNCHANGED <<config, content, entities, topics, clock, last, inflight>>

\* await of a cancelled future raises asyncio.CancelledError, which passes
\* the except clauses of lines 353 and 367
AwaitCancelled ==
  /\ run.pc = "await"
  /\ run.done_queue # <<>>
  /\ run.future[Head(run.done_queue)] = "cancelled"
  /\ run' = [run EXCEPT !.pc = "unwind"]
  /\ UNCHANGED <<config, content, entities, topics, clock, last, inflight>>

\* the exception leaves the with block of the executor, which waits for the
\* running threads, and then process_content_items (its except clause at
\* line 232 is for Exception)
Unwind ==
  /\ run.pc = "unwind"
  /\ InState(run, "running") = {}
  /\ run' = [run EXCEPT !.pc = "raised"]
  /\ UNCHANGED <<config, content, entities, topics, clock, last, inflight>>

\* results.extend(batch_results)
ExtendResults(results, batch_results) == results \o batch_results

\* _process_batch returns; lines 200-230 of process_content_items
EndBatch ==
  /\ run.pc = "iterate"
  /\ run.awaited = Cardinality(BatchOf(run))
  /\ run' = IF run.stop_signal
            THEN [run EXCEPT
                    !.results = ExtendResults(@, run.batch_results),
                    !.status = "stopped", !.pc = "returned"]
            ELSE [run EXCEPT
                    !.results = ExtendResults(@, run.batch_results),
                    !.batch_start = @ + run.batch_size,
                    !.pc = "batch"]
  /\ UNCHANGED <<config, content, entities, topics, clock, last, inflight>>

\* the batch loop is exhausted: lines 253-285
ReturnRun ==
  /\ run.pc = "batch"
  /\ run.batch_start >= NumItems
  /\ run' = [run EXCEPT !.status = FinalStatus(@), !.pc = "returned"]
  /\ UNCHANGED <<config, content, entities, topics, clock, last, inflight>>

\* stop_processing(), called from the stop endpoint while the run awaits
StopProcessing ==
  /\ run.pc = "await"
  /\ ~run.stop_signal
  /\ run' = [run EXCEPT
               !.stop_signal = TRUE,
               !.completed_at_stop = InState(run, "finished"),
               !.inflight_at_stop = InState(run, "running")]
  /\ UNCHANGED <<config, content, entities, topics, clock, last, inflight>>

RunConfigs ==
  { [max_entries |-> 10000, cleanup_threshold |-> 90,
     initial_db_size |-> 100, knowledge_building_mode |-> FALSE] }

\* reset_stop_signal and the stats of lines 136-174
NewRun(items, kinds, batch_size, max_workers) ==
  [items |-> items, kinds |-> kinds,
   batch_size |-> batch_size, max_workers |-> max_workers,
   batch_start |-> 0, pc |-> "batch", awaited |-> 0,
   stop_signal |-> FALSE, status |-> "in_progress",
   item_state |-> [i \in 1..Len(items) |-> "waiting"],
   future |-> [i \in 1..Len(items) |-> "none"],
   item_result |-> [i \in 1..Len(items) |-> <<>>],
   done_queue |-> <<>>, batch_results |-> <<>>, results |-> <<>>,
   upserted |-> {}, completed_at_stop |-> {}, inflight_at_stop |-> {},
   started_after_stop |-> {}]

InitRun ==
  /\ config \in RunConfigs
  /\ content = <<>>
  /\ entities = [cid \in ContentIds |-> <<>>]
  /\ topics = [cid \in ContentIds |-> <<>>]
  /\ clock = 0
  /\ last = NoCall
  /\ inflight = [inst \in {} |-> Idle]
  /\ \E n \in 1..MaxItems : \E kinds \in [1..n -> ItemKinds] :
       \E batch_size \in { 1, 2, MaxItems }, max_workers \in { 1, 2 } :
          run = NewRun([i \in 1..n |-> RunItem(i, kinds[i])], kinds,
                       batch_size, max_workers)

NextRun ==
  \/ SubmitBatch
  \/ \E i \in 1..NumItems : FinishItem(i)
  \/ NextFuture
  \/ AwaitResult
  \/ AwaitCancelled
  \/ Unwind
  \/ EndBatch
  \/ ReturnRun
  \/ StopProcessing

SpecRun == InitRun /\ [][NextRun]_vars

----------------------------------------------------------------------------
(* The bulk jobs of the API.  run is active_jobs, the dict from job_id to  *)
(* the entry of the job; inflight is the list of the background tasks, one *)
(* per start_bulk_processing call, each with the BulkContentProcessor that *)
(* the call built; clock is the second that datetime.now() shows.  The     *)
(* endpoints and the coroutine of a task run on one event loop, so each of *)
(* their steps up to the next await is one action; _process_single_item    *)
(* and the progress callback run on the worker threads.  stop_acked and    *)
(* started_after_stop of a task and decreased of an entry record what the  *)
(* program does not keep: that stop_job returned 'stopping' for the        *)
(* processor, the items its threads began after that, and that an          *)
(* assignment lowered processed_items.                                     *)

\* the tasks of a behaviour, and the requests they come from: the number
\* of items, batch_size and max_workers of config.json
JobSlots == { 1, 2 }

JobShapes ==
  { [total_items |-> 2, batch_size |-> 2, max_workers |-> 2],
    [total_items |-> 2, batch_size |-> 1, max_workers |-> 1] }

\* job_{datetime.now():%Y%m%d_%H%M%S}_{site_id}
JobId(now, site_id) == <<now, site_id>>

\* the entry of lines 57-70
NewJob(processor, site_id, total_items) ==
  [processor |-> processor, site_id |-> site_id, total_items |-> total_items,
   processed_items |-> 0, status |-> "queued", decreased |-> FALSE]

\* the task that background_tasks.add_task schedules, with the processor
\* of line 54
NewTask(job_id, shape) ==
  [job_id |-> job_id, pc |-> "queued", stop_signal |-> FALSE,
   total_items |-> shape.total_items, batch_size |-> shape.batch_size,
   max_workers |-> shape.max_workers, batch_start |-> 0,
   item_state |-> [i \in 1..shape.total_items |-> "waiting"],
   done_queue |-> <<>>, awaited |-> 0, results |-> 0, status |-> "in_progress",
   stop_acked |-> FALSE, started_after_stop |-> {}]

\* active_jobs[job_id] = entry
SetJob(jobs, job_id, entry) ==
  [j \in DOMAIN jobs \cup { job_id } |-> IF j = job_id THEN entry ELSE jobs[j]]

\* active_jobs[job_id]["processed_items"] = value
SetProcessed(jobs, job_id, value) ==
  [jobs EXCEPT ![job_id].processed_items = value,
               ![job_id].decreased = @ \/ value < jobs[job_id].processed_items]

\* the items of a task that a worker thread holds
Busy(item_state) ==
  { i \in DOMAIN item_state : item_state[i] \in { "running", "processing" } }

\* the idle worker threads take the oldest work items of the executor's
\* queue
RECURSIVE TakeJobWork(_, _)
TakeJobWork(item_state, max_workers) ==
  LET queued == { i \in DOMAIN item_state : item_state[i] = "queued" }
  IN IF queued = {} \/ Cardinality(Busy(item_state)) >= max_workers
     THEN item_state
     ELSE LET i == CHOOSE x \in queued : \A y \in queued : x <= y
          IN TakeJobWork([item_state EXCEPT ![i] = "running"], max_workers)

\* lines 180-198 and 311-328: the batch that begins at batch_start is
\* submitted, or the loop ends
NextBatch(task) ==
  IF task.batch_start >= task.total_items
  THEN [task EXCEPT !.status = FinalStatus(@), !.pc = "report"]
  ELSE IF task.stop_signal
  THEN [task EXCEPT !.status = "stopped", !.pc = "report"]
  ELSE LET submitted == [i \in 1..task.total_items |->
                           IF /\ task.batch_start < i
                              /\ i <= task.batch_start + task.batch_size
                           THEN "queued" ELSE task.item_state[i]]
           taken     == TakeJobWork(submitted, task.max_workers)
       IN [task EXCEPT
             !.item_state = taken,
             !.started_after_stop =
                IF task.stop_acked THEN @ \cup Busy(taken) ELSE @,
             !.awaited = 0, !.done_queue = <<>>, !.pc = "await"]

\* the size of the batch that begins at batch_start
BatchLen(task) == Min(task.batch_size, task.total_items - task.batch_start)

\* start_bulk_processing(background_tasks, content_items, site_id, ...)
StartBulkProcessing(site_id, shape) ==
  /\ Len(inflight) + 1 \in JobSlots
  /\ LET job_id == JobId(clock, SiteOf(site_id))
     IN /\ run' = SetJob(run, job_id,
                         NewJob(Len(inflight) + 1, SiteOf(site_id), shape.total_items))
        /\ inflight' = Append(inflight, NewTask(job_id, shape))
  /\ UNCHANGED <<config, content, entities, topics, clock, last>>

\* a second passes; the clock is read by start_bulk_processing only, and
\* only the seconds between two calls matter
Tick ==
  /\ clock < MaxClock
  /\ inflight # <<>>
  /\ Len(inflight) + 1 \in JobSlots
  /\ clock' = clock + 1
  /\ UNCHANGED <<config, content, entities, topics, last, inflight, run>>

\* _run_bulk_processing up to its first await: lines 129-137, then
\* reset_stop_signal and the first batch of process_content_items
BeginTask(t) ==
  /\ inflight[t].pc = "queued"
  /\ run' = [run EXCEPT ![inflight[t].job_id].status = "processing"]
  /\ inflight' = [inflight EXCEPT ![t] = NextBatch([@ EXCEPT !.stop_signal = FALSE])]
  /\ UNCHANGED <<config, content, entities, topics, clock, last>>

\* a worker thread reaches the first progress callback of item i, lines
\* 427-434: processed_items = current + 1
ItemProcessing(t, i) ==
  /\ inflight[t].item_state[i] = "running"
  /\ inflight' = [inflight EXCEPT ![t].item_state[i] = "processing"]
  /\ run' = SetProcessed(run, inflight[t].job_id, i)
  /\ UNCHANGED <<config, content, entities, topics, clock, last>>

\* the thread reaches the final progress callback of item i, lines 591-603,
\* and returns; the result reaches the future unless that was cancelled,
\* and the thread takes the next work item
ItemFinished(t, i) ==
  /\ inflight[t].item_state[i] = "processing"
  /\ LET task  == inflight[t]
         taken == TakeJobWork([task.item_state EXCEPT ![i] = "finished"],
                              task.max_workers)
     IN inflight' = [inflight EXCEPT ![t] =
          [task EXCEPT
             !.item_state = taken,
             !.started_after_stop =
                IF task.stop_acked THEN @ \cup (Busy(taken) \ Busy(task.item_state))
                ELSE @,
             !.done_queue = IF task.pc = "await" THEN Append(@, i) ELSE @]]
  /\ run' = SetProcessed(run, inflight[t].job_id, i)
  /\ UNCHANGED <<config, content, entities, topics, clock, last>>

\* the coroutine resumes in the as_completed loop with the result of a
\* future and runs to its next await, lines 331-351 and 200-230: with the
\* flag set and a future that is not done, the futures are cancelled and
\* the next await raises asyncio.CancelledError
Resume(t) ==
  /\ inflight[t].pc = "await"
  /\ inflight[t].done_queue # <<>>
  /\ LET task == [inflight[t] EXCEPT !.done_queue = Tail(@), !.awaited = @ + 1,
                                     !.results = @ + 1]
         open == { i \in DOMAIN task.item_state :
                     task.item_state[i] \in { "queued", "running", "processing" } }
     IN inflight' = [inflight EXCEPT ![t] =
          IF task.awaited = BatchLen(task)
          THEN IF task.stop_signal
               THEN [task EXCEPT !.status = "stopped", !.pc = "report"]
               ELSE NextBatch([task EXCEPT !.batch_start = @ + task.batch_size])
          ELSE IF task.stop_signal /\ open # {}
          THEN [task EXCEPT
                  !.item_state = [i \in DOMAIN @ |->
                                    IF @[i] = "queued" THEN "cancelled" ELSE @[i]],
                  !.pc = "unwind"]
          ELSE task]
  /\ UNCHANGED <<config, content, entities, topics, clock, last, run>>

\* the exception leaves the with block of the executor, which waits for
\* the running threads, and then _run_bulk_processing, whose except clause
\* is for Exception: the entry of the job stays as it is
Unwind_Task(t) ==
  /\ inflight[t].pc = "unwind"
  /\ Busy(inflight[t].item_state) = {}
  /\ inflight' = [inflight EXCEPT ![t].pc = "raised"]
  /\ UNCHANGED <<config, content, entities, topics, clock, last, run>>

\* process_content_items has returned: lines 180-186
EndTask(t) ==
  /\ inflight[t].pc = "report"
  /\ inflight' = [inflight EXCEPT ![t].pc = "done"]
  /\ run' = SetProcessed(
              [run EXCEPT ![inflight[t].job_id].status = inflight[t].status],
              inflight[t].job_id,
              Min(inflight[t].results, inflight[t].total_items))
  /\ UNCHANGED <<config, content, entities, topics, clock, last>>

\* stop_job(job_id)
StopJob(job_id) ==
  /\ job_id \in DOMAIN run
  /\ IF run[job_id].status \in { "completed", "error", "stopped", "stopping" }
     THEN UNCHANGED <<inflight, run>>
     ELSE /\ inflight' = [inflight EXCEPT ![run[job_id].processor].stop_signal = TRUE,
                                          ![run[job_id].processor].stop_acked = TRUE]
          /\ run' = [run EXCEPT ![job_id].status = "stopping"]
  /\ UNCHANGED <<config, content, entities, topics, clock, last>>

InitJobs ==
  /\ config \in RunConfigs
  /\ content = <<>>
  /\ entities = [cid \in ContentIds |-> <<>>]
  /\ topics = [cid \in ContentIds |-> <<>>]
  /\ clock = 0
  /\ last = NoCall
  /\ inflight = <<>>
  /\ run = [j \in {} |-> NewJob(0, NONE, 0)]

NextJobs ==
  \/ \E site_id \in SiteIds, shape \in JobShapes : StartBulkProcessing(site_id, shape)
  \/ Tick
  \/ \E t \in 1..Len(inflight) : BeginTask(t)
  \/ \E t \in 1..Len(inflight) : \E i \in 1..inflight[t].total_items :
        ItemProcessing(t, i)
  \/ \E t \in 1..Len(inflight) : \E i \in 1..inflight[t].total_items :
        ItemFinished(t, i)
  \/ \E t \in 1..Len(inflight) : Resume(t)
  \/ \E t \in 1..Len(inflight) : Unwind_Task(t)
  \/ \E t \in 1..Len(inflight) : EndTask(t)
  \/ \E job_id \in DOMAIN run : StopJob(job_id)

SpecJobs == InitJobs /\ [][NextJobs]_vars

----------------------------------------------------------------------------
(* Properties of the similarity search *)

IsFind(l) == l.op = "find_related"

\* the rows a query has to consider: a stored embedding, not the excluded
\* url, similarity at or above the threshold
Qualifying(l) ==
  { i \in 1..Len(content) :
      /\ content[i].embedding # NULL
      /\ Truthy(l.exclude_url) => content[i].url # l.exclude_url
      /\ CalculateCosineSimilarity(l.query_embedding, Unpickle(content[i].embedding))
           >= l.min_similarity }

ScanPosition(content_id) ==
  CHOOSE i \in 1..Len(content) : content[i].content_id = content_id

\* item a ranks before the row at scan position i with similarity sim
RanksBefore(a, i, sim) ==
  \/ a.similarity > sim
  \/ a.similarity = sim /\ ScanPosition(a.content_id) < i

\* C8: find_related_content_semantic never returns an item whose url equals
\* exclude_url.
C8_ExcludeUrlNeverReturned ==
  IsFind(last)
  => \A k \in 1..Len(last.result) : last.result[k].url # last.exclude_url

\* C9: the result is the first top_n elements of the qualifying rows sorted
\* by similarity, highest first, ties in scan order: it has
\* min(top_n, number of qualifying rows) items, each a distinct qualifying
\* row with its similarity, in rank order, and every qualifying row left out
\* ranks after every returned one.
C9_TopNBySimilarity ==
  IsFind(last)
  => LET r == last.result
         Q == Qualifying(last)
         Sim(i) == CalculateCosineSimilarity(last.query_embedding,
                                             Unpickle(content[i].embedding))
     IN /\ Len(r) = Min(last.top_n, Cardinality(Q))
        /\ \A k \in 1..Len(r) :
              /\ r[k].similarity >= last.min_similarity
              /\ \E i \in Q : /\ content[i].content_id = r[k].content_id
                              /\ content[i].title = r[k].title
                              /\ content[i].url = r[k].url
                              /\ r[k].similarity = Sim(i)
        /\ \A k, l \in 1..Len(r) :
              k < l => /\ r[k].content_id # r[l].content_id
                       /\ RanksBefore(r[k], ScanPosition(r[l].content_id), r[l].similarity)
        /\ \A i \in Q :
              (\A k \in 1..Len(r) : r[k].content_id # content[i].content_id)
              => \A k \in 1..Len(r) : RanksBefore(r[k], i, Sim(i))

C9_Witness ==
  /\ IsFind(last)
  /\ Len(last.result) = 2
  /\ Cardinality(Qualifying(last)) = 3
  /\ last.result[1].similarity > last.result[2].similarity
  /\ \E i \in Qualifying(last) :
        /\ content[i].content_id # last.result[2].content_id
        /\ CalculateCosineSimilarity(last.query_embedding, Unpickle(content[i].embedding))
             = last.result[2].similarity

----------------------------------------------------------------------------
(* Properties of the failure handling and of bulk processing *)

IsItem(l) == l.op = "process_item"

\* C7 as stated: a store failure at any step of add_content or
\* remove_content makes the call return false instead of raising, and the
\* item's result is produced with in_knowledge_db = false.
C7_AnyFailureReturnsFalse ==
  /\ (IsItem(last) /\ last.called /\ last.fault # "none")
     => /\ ~last.raised
        /\ ~last.ret
        /\ ~last.result.in_knowledge_db
  /\ (IsRemove(last) /\ last.fault # "none") => (~last.raised /\ ~last.ret)

\* C7: add_content and remove_content never raise on a store failure.  A
\* failure in the upsert transaction or in the final commit of add_content,
\* or in remove_content, returns false (the first and the last leave the
\* tables as they were); a failure of the cleanup after the committed upsert
\* is swallowed and add_content returns true.  The bulk caller goes on: every
\* item gets its result, with in_knowledge_db equal to what add_content
\* returned.
C7_FailureOutcome ==
  /\ (IsItem(last) /\ last.called)
     => /\ ~last.raised
        /\ last.fault \in { "txn", "exit" } => ~last.ret
        /\ last.fault = "txn" => last.unchanged
        /\ last.fault \in { "none", "cleanup" } => last.ret
        /\ last.result.status = "success"
        /\ last.result.in_knowledge_db = last.ret
  /\ IsItem(last)
     => /\ last.result.id = last.item.id
        /\ run.processed = run.next - 1
        /\ run.processed = clock
  /\ (IsRemove(last) /\ last.fault # "none")
     => (~last.raised /\ ~last.ret /\ last.unchanged)

C7_Witness ==
  /\ IsItem(last)
  /\ last.after_failure
  /\ last.fault = "cleanup"
  /\ last.result.in_knowledge_db
  /\ Len(content) > ThresholdCount(config)

\* C10: a document is never linked to itself: no suggestion in the result
\* of an item targets the record of that item.
C10_NoSelfLink ==
  IsItem(last)
  => \A k \in 1..Len(last.result.link_suggestions) :
        last.result.link_suggestions[k].target_id # last.content_id

----------------------------------------------------------------------------
(* Properties of the analyses *)

IsAnalysis(l) == l.op \in { "analyze_content", "basic_analyze" }

IsSuccess(l) == IsAnalysis(l) /\ l.result.status = "success"

\* the suggestions of a list that were made from the paragraph with an index
OfParagraph(suggestions, para_idx) ==
  { k \in 1..Len(suggestions) : suggestions[k].paragraph_index = para_idx }

\* C11: in every successful analysis result, for each paragraph_index the
\* number of suggestions with that index is at most max_links_per_paragraph.
C11_LinksPerParagraph ==
  IsSuccess(last)
  => \A k \in 1..Len(last.result.link_suggestions) :
        Cardinality(OfParagraph(last.result.link_suggestions,
                                last.result.link_suggestions[k].paragraph_index))
          <= config.max_links_per_paragraph

C11_Witness ==
  /\ IsSuccess(last)
  /\ last.op = "analyze_content"
  /\ Cardinality({ i \in 1..Len(content) :
                     /\ content[i].embedding # NULL
                     /\ AnchorConfidence(content[i].title) >= config.min_confidence
                     /\ CalculateCosineSimilarity(<<1, 0>>, Unpickle(content[i].embedding))
                          >= config.min_relevance })
       > config.max_links_per_paragraph
  /\ \E k \in 1..Len(last.result.link_suggestions) :
        /\ last.result.link_suggestions[k].relevance = 100
        /\ Cardinality(OfParagraph(last.result.link_suggestions,
                                   last.result.link_suggestions[k].paragraph_index))
             = config.max_links_per_paragraph

\* C12: the returned list is the accepted suggestions of all paragraphs
\* sorted by (relevance, confidence), highest first, and cut to
\* max_suggestions: it has min(max_suggestions, number accepted) entries, all
\* of them accepted and no two the same, in non-increasing order, and no
\* accepted suggestion that was dropped ranks strictly above a kept one.
C12_RankedAndTruncated ==
  (IsSuccess(last) /\ last.fault.stage # "no_model")
  => LET r == last.result.link_suggestions
     IN /\ Len(r) <= config.max_suggestions
        /\ Len(r) = Min(config.max_suggestions, Len(last.accepted))
        /\ Range(r) \subseteq Range(last.accepted)
        /\ Cardinality(Range(r)) = Len(r)
        /\ \A k, l \in 1..Len(r) : k < l => ~OpportunityBefore(r[l], r[k])
        /\ \A a \in Range(last.accepted) \ Range(r) :
              \A k \in 1..Len(r) : ~OpportunityBefore(a, r[k])

C12_Witness ==
  /\ IsSuccess(last)
  /\ last.op = "analyze_content"
  /\ Len(last.accepted) > config.max_suggestions
  /\ Len(last.result.link_suggestions) = config.max_suggestions
  /\ \E i, j \in 1..Len(last.accepted) :
        i < j /\ OpportunityBefore(last.accepted[j], last.accepted[i])
  /\ \E a \in Range(last.accepted) \ Range(last.result.link_suggestions) :
        OpportunityBefore(last.result.link_suggestions[1], a)

\* C13: no suggestion is produced from a paragraph shorter than
\* min_paragraph_length, on the blank-line and on the single-newline path of
\* the segmentation.
C13_NoShortParagraph ==
  IsAnalysis(last)
  => \A k \in 1..Len(last.result.link_suggestions) :
        last.result.link_suggestions[k].paragraph_len >= config.min_paragraph_length

C13_Witness ==
  /\ IsSuccess(last)
  /\ last.op = "analyze_content"
  /\ Len(last.text) = 1
  /\ \E i \in 1..Len(last.text[1]) :
        /\ last.text[1][i].len > SingleNewlineMinLen
        /\ last.text[1][i].len < config.min_paragraph_length
  /\ Len(last.result.link_suggestions) > 0

\* the ranked list of the call when no stage fails; without the model there
\* is nothing to rank
FullRankedList(l) ==
  AnalyzeContent(config, content, l.text, l.title, l.url,
                 IF l.fault.stage = "no_model" THEN l.fault ELSE NoFault).link_suggestions

\* C14: every analyze_content call ends in one of two outcomes and never
\* raises: success with the full ranked suggestion list, or error with no
\* suggestions and a message that carries the message of the exception; an
\* exception at any stage never yields a partial list.
C14_SuccessOrError ==
  last.op = "analyze_content"
  => /\ ~last.result.raised
     /\ \/ /\ last.result.status = "success"
           /\ last.result.link_suggestions = FullRankedList(last)
        \/ /\ last.result.status = "error"
           /\ last.result.link_suggestions = <<>>
           /\ last.result.error # NONE
           /\ last.fault.stage \notin { "none", "no_model" }
                => last.result.cause = last.fault.stage

\* C15: an embedding failure is never fatal.  A bulk item whose embedding
\* cannot be computed is still upserted, its result has status success, and
\* its record is not a candidate of the similarity search; an analysis
\* without the model, or in which the embedding of a paragraph fails, still
\* returns status success.
C15_EmbeddingFailureNotFatal ==
  /\ (IsItem(last) /\ last.called /\ last.item.embedding = NULL /\ last.fault = "none")
     => /\ last.result.status = "success"
        /\ last.result.in_knowledge_db
        /\ HasRow(content, last.content_id)
        /\ ~IsCandidateRow(RowOf(content, last.content_id), "")
  /\ (last.op = "analyze_content" /\ last.fault.stage \in { "no_model", "embedding" })
     => last.result.status = "success"

\* C20: bulk processing generates no suggestions while bootstrapping: the
\* result of an item has no link suggestions whenever knowledge building
\* mode is on or the content count read when the item is processed is
\* below initial_db_size, and the item is upserted all the same.
C20_NoSuggestionsWhileBootstrapping ==
  (/\ IsItem(last) /\ last.called
   /\ \/ config.knowledge_building_mode
      \/ Len(content) < config.initial_db_size)
  => /\ last.result.link_suggestions = <<>>
     /\ last.result.status = "success"
     /\ last.result.in_knowledge_db
     /\ HasRow(content, last.content_id)
     /\ RowOf(content, last.content_id).title = last.item.title

\* an item processed below initial_db_size whose analysis would have made
\* a suggestion, and one processed in knowledge building mode on a store
\* that has reached initial_db_size
C20_Witness ==
  /\ IsItem(last) /\ last.called
  /\ HasRow(content, last.content_id)
  /\ last.result.link_suggestions = <<>>
  /\ AnalyzeContent(AnalyzerConfig, content, last.item.content, last.item.title,
                    UrlStr(last.item.url), NoFault).link_suggestions # <<>>
  /\ \/ ~config.knowledge_building_mode /\ Len(content) < config.initial_db_size
     \/ config.knowledge_building_mode /\ Len(content) >= config.initial_db_size

----------------------------------------------------------------------------
(* Properties of a bulk run *)

\* process_content_items has returned or raised
Ended == run.pc \in { "returned", "raised" }

\* the result of item i as its thread returned it is in the returned list
Reported(i) ==
  /\ run.pc = "returned"
  /\ run.item_result[i] # <<>>
  /\ \E k \in 1..Len(run.results) :
        run.results[k] = [index |-> i, result |-> run.item_result[i][1]]

\* the stop signal was set while an item had not completed
StoppedEarly ==
  /\ run.stop_signal
  /\ Cardinality(run.completed_at_stop) < NumItems

\* C16: without a stop signal one item's failure never stops the batch: the
\* run does not raise, it returns status completed with exactly one result
\* for every input item; an invalid item and an item whose processing
\* raises have an error result of their own and every other item is
\* processed and stored.
C16_EveryItemReported ==
  ~run.stop_signal
  => /\ run.pc \notin { "unwind", "raised" }
     /\ run.pc = "returned"
        => /\ run.status = "completed"
           /\ Len(run.results) = NumItems
           /\ \A i \in 1..NumItems : Reported(i)
           /\ \A k \in 1..Len(run.results) :
                 LET i == run.results[k].index
                     r == run.results[k].result
                 IN /\ r.id = run.items[i].id
                    /\ run.kinds[i] = "valid"
                         => /\ r.status = "success"
                            /\ r.in_knowledge_db
                            /\ HasRow(content, PyStr(r.id))
                    /\ run.kinds[i] # "valid"
                         => /\ r.status = "error"
                            /\ i \notin run.upserted

\* a completed run of three items in two batches whose first item is
\* invalid, whose second raises and whose third is stored
C16_Witness ==
  /\ run.pc = "returned"
  /\ ~run.stop_signal
  /\ run.status = "completed"
  /\ run.batch_size = 2
  /\ run.kinds = <<"invalid", "raises", "valid">>
  /\ Len(run.results) = 3
  /\ run.results[3].result.status = "success"
  /\ HasRow(content, "id3")

\* C17: a stop signal raised while items have not completed ends the run
\* with status stopped and the result of every item that completed before
\* the signal in the returned list; a run without a stop signal never ends
\* stopped.
C17_StopEndsStopped ==
  /\ (StoppedEarly /\ Ended)
     => /\ run.pc = "returned"
        /\ run.status = "stopped"
        /\ \A i \in run.completed_at_stop : Reported(i)
  /\ (~run.stop_signal /\ run.pc = "returned") => run.status # "stopped"

\* C18: a stop signal raised after exactly k items have completed makes
\* the run return exactly the k results of those items and status stopped.
C18_ExactlyKResults ==
  (StoppedEarly /\ Ended)
  => /\ run.pc = "returned"
     /\ run.status = "stopped"
     /\ Len(run.results) = Cardinality(run.completed_at_stop)
     /\ { run.results[k].index : k \in 1..Len(run.results) } = run.completed_at_stop

\* C19: the stop signal is cooperative: once it is set no item that has
\* not begun is started, and every item in flight runs to completion with
\* its store write and its result kept.
C19_StopIsCooperative ==
  /\ run.started_after_stop = {}
  /\ run.upserted \cap run.started_after_stop = {}
  /\ (run.stop_signal /\ Ended)
     => \A i \in run.inflight_at_stop :
           /\ run.item_state[i] = "finished"
           /\ run.kinds[i] = "valid" => i \in run.upserted
           /\ Reported(i)

----------------------------------------------------------------------------
(* Properties of concurrent writers *)

\* C22: writes to one site's store are serialised: the existence check and
\* the write of every add_content act as one step on the tables, whatever
\* other calls on the site run meanwhile, and no call returns false because
\* another call ran concurrently.
C22_WritesSerialized ==
  (IsAdd(last) /\ last.path = "race") => (last.serial /\ last.ret)

\* C27: no orphan child rows: every entity row and every topic row refers
\* to a content_id that has a record in the content table.
C27_NoOrphanChildren ==
  \A cid \in ContentIds :
     (entities[cid] # <<>> \/ topics[cid] # <<>>) => HasRow(content, cid)

----------------------------------------------------------------------------
(* Properties of the stores of several sites *)

\* C21: Stores are isolated per site.  A call for one site (add_content
\* with its eviction, remove_content, a search, an analysis, an item of a
\* bulk processor, also of a processor that was switched to another site)
\* leaves the tables of every other site as they were, and every record
\* that a search or an analysis for a site returns was upserted for that
\* site.
C21_SitesIsolated ==
  (last.op # "none") =>
     /\ \A file \in DbFiles \ { last.site } :
           /\ content[file] = last.before.content[file]
           /\ entities[file] = last.before.entities[file]
           /\ topics[file] = last.before.topics[file]
     /\ \A i \in 1..Len(last.returned) :
           last.returned[i].title = SiteTitle(last.site)

\* an item of a processor that was switched to site a is upserted into the
\* store of a and gets a suggestion from it, while the other store is
\* filled
C21_Witness ==
  /\ last.op = "process_content_items" /\ ~last.raised
  /\ run.switched
  /\ last.returned # <<>>
  /\ content["a"] # last.before.content["a"]
  /\ content["default"] # <<>>

----------------------------------------------------------------------------
(* Properties of the accepted suggestions *)

\* C25: Each pair of a paragraph and a target contributes at most one
\* suggestion, its anchor is the option of the highest confidence among
\* the options generated for the pair, and it is accepted only if that
\* confidence is at least min_confidence: every suggestion of a result has
\* anchor_confidence >= min_confidence and relevance >= min_relevance.
\* This holds for both analyzers.
C25_BestAnchorAboveThresholds ==
  (IsAnalysis(last) /\ IsSuccess(last)) =>
     LET suggestions == last.result.link_suggestions
     IN /\ \A i \in 1..Len(suggestions) :
             LET s == suggestions[i]
                 anchor_options == AnchorOptionsOf(s.target_title)
             IN /\ s.anchor_confidence >= config.min_confidence
                /\ s.relevance >= config.min_relevance
                /\ \E k \in 1..Len(anchor_options) :
                      /\ anchor_options[k].text = s.anchor_text
                      /\ anchor_options[k].confidence = s.anchor_confidence
                /\ \A k \in 1..Len(anchor_options) :
                      anchor_options[k].confidence <= s.anchor_confidence
        /\ \A i, j \in 1..Len(suggestions) :
             (/\ suggestions[i].paragraph_index = suggestions[j].paragraph_index
              /\ suggestions[i].target_id = suggestions[j].target_id
              /\ suggestions[i].target_url = suggestions[j].target_url) => i = j

\* an analysis returned a suggestion whose target had several options, and
\* left out a target that was relevant enough for one of its paragraphs
\* but whose best option was below min_confidence
C25_Witness ==
  /\ last.op = "analyze_content" /\ IsSuccess(last)
  /\ \E i \in 1..Len(last.result.link_suggestions) :
        Len(AnchorOptionsOf(last.result.link_suggestions[i].target_title)) > 1
  /\ \E r \in 1..Len(content) :
        /\ content[r].embedding # NULL
        /\ AnchorConfidence(content[r].title) < config.min_confidence
        /\ \E p \in 1..Len(SplitIntoParagraphs(config, last.text)) :
              CalculateCosineSimilarity(SplitIntoParagraphs(config, last.text)[p].vec,
                                        Unpickle(content[r].embedding))
                 >= config.min_relevance

----------------------------------------------------------------------------
(* Properties of the anchor options *)

IsGenerate(l) == l.op = "generate_anchor_options"

\* C23: No anchor option that generate_anchor_options returns is, without
\* regard to case, exactly one of the weak phrases, and none is a single
\* word.
C23_NoWeakAnchor ==
  IsGenerate(last) =>
     \A i \in 1..Len(last.result) :
        /\ Lower(last.result[i].text) \notin WeakPhrases
        /\ Len(SplitWords(last.result[i].text)) > 1

\* C24: Every anchor option that generate_anchor_options returns occurs in
\* the source text as a literal substring, without regard to case.
C24_AnchorOccursInText ==
  IsGenerate(last) =>
     \A i \in 1..Len(last.result) :
        Find(Lower(last.text), Lower(last.result[i].text)) # -1

----------------------------------------------------------------------------
(* Properties of the bulk jobs *)

\* the entry of the job of a task, if the entry still belongs to the task
OwnsEntry(t) ==
  /\ inflight[t].job_id \in DOMAIN run
  /\ run[inflight[t].job_id].processor = t

\* the items of a task whose _process_single_item has returned
FinishedItems(t) ==
  { i \in 1..inflight[t].total_items : inflight[t].item_state[i] = "finished" }

\* C28: A stop request is never lost.  Once stop_job has returned
\* 'stopping' for a job, also for a job that is still 'queued', the job
\* begins no item that it had not begun, its status is 'stopping' or
\* 'stopped' from then on (never 'processing' again, never 'completed'),
\* and when its task has ended the status is 'stopped'.
C28_StopNeverLost ==
  \A t \in 1..Len(inflight) :
     (inflight[t].stop_acked /\ OwnsEntry(t)) =>
        /\ inflight[t].started_after_stop = {}
        /\ run[inflight[t].job_id].status \in { "stopping", "stopped" }
        /\ inflight[t].pc \in { "done", "raised" } =>
              run[inflight[t].job_id].status = "stopped"

\* C29: processed_items of a job never decreases, never exceeds
\* total_items and never exceeds the number of items of the job that have
\* finished, whatever the order of the progress callbacks.
C29_ProcessedItemsMonotonic ==
  \A t \in 1..Len(inflight) :
     OwnsEntry(t) =>
        /\ ~run[inflight[t].job_id].decreased
        /\ run[inflight[t].job_id].processed_items <= run[inflight[t].job_id].total_items
        /\ run[inflight[t].job_id].processed_items <= Cardinality(FinishedItems(t))

\* C30: Every start_bulk_processing call that returns 'queued' creates an
\* entry of its own under a job_id that no other call got, and never
\* overwrites the entry of another job.
C30_JobIdsUnique ==
  /\ \A t, u \in 1..Len(inflight) : inflight[t].job_id = inflight[u].job_id => t = u
  /\ \A t \in 1..Len(inflight) : OwnsEntry(t)

====
